---------------------------- MODULE Spec2Model ----------------------------
(***************************************************************************)
(* Model of the evolutionary backtest engine:                              *)
(*   src/src/lib/backtest.ts   genome decoders, SMA-crossover simulator,   *)
(*                             fitness formula, crossover + mutation       *)
(*   src/unnamed/part_001      the dashboard's runGeneration handler       *)
(*                             and, in SpecAsync, its awaits together      *)
(*                             with refreshPriceData and the auto-run      *)
(*                             timer                                       *)
(*                                                                         *)
(* Numbers.  The program computes in IEEE-754 doubles; the model computes  *)
(* in fixed point over the integers:                                       *)
(*   gene            v = g / GeneScale            g \in 0..GeneScale       *)
(*   money           whole currency units                                  *)
(*   position        units / UnitScale                                     *)
(*   exposure, tanh  1 / ExpScale                                          *)
(*   tanh argument   1 / ArgScale                                          *)
(*   metrics         sharpe, return %, win rate %, drawdown % in           *)
(*                   1 / MetricScale                                       *)
(* The simple moving averages are the exception: they are kept as binary   *)
(* floating-point numbers of MantBits significant bits, every operation    *)
(* rounded to nearest, so that the rounding of computeSMA's running prefix *)
(* sums is part of the model.                                              *)
(* A double that is NaN is modelled by the flag `nan` of the record that   *)
(* holds it.                                                               *)
(***************************************************************************)
EXTENDS Integers, Sequences, FiniteSets, TLC

VARIABLES
    agents,             \* useState<AgentGenome[]>          part_001:57
    currentGen,         \* useState(0)                      part_001:64
    genHistory,         \* useState<{gen,...}[]>            part_001:63
    portfolio,          \* useState<PortfolioState>         part_001:70
    priceHistory,       \* useState<PriceHistory>           part_001:77
    backtestResults,    \* useState<Record<id,Result>>      part_001:78
    toast,              \* the last toast() shown
    generationSummary,  \* useState<GenSummary | null>      part_001:71
    isRunning,          \* useState(false)                  part_001:65
    isPriceRefreshing,  \* useState(false)                  part_001:80
    rendered,           \* what the last commit (dom) and the last effect
                        \* flush (ref) handed to the handlers
    inflight,           \* the async calls that wait at an await
    sim,                \* the locals of one runBacktest call
    call                \* one call of a pure function: arguments and result

vars == <<agents, currentGen, genHistory, portfolio, priceHistory,
          backtestResults, toast, generationSummary, isRunning,
          isPriceRefreshing, rendered, inflight, sim, call>>

genVars == <<agents, currentGen, genHistory, portfolio, priceHistory,
             backtestResults, toast, generationSummary, isRunning,
             isPriceRefreshing, rendered, inflight>>

-----------------------------------------------------------------------------
(* Resolutions and bounds of the model *)

\* genes are multiples of 1 / GeneScale
GeneScale == 100

\* the argument of tanh is kept in multiples of 1 / ArgScale
ArgScale == 100

\* daily returns are kept in multiples of 1 / RetScale
RetScale == 10000

\* money in cents, as equityCurve keeps it (toFixed(2)); the position is kept
\* in the same resolution, so that position * price is exact for whole prices
MoneyScale == 100

\* exposures in 1e-4, as a trade signal keeps them (toFixed(4))
ExpScale == 10000

\* metrics in 1e-3, as the result keeps the Sharpe ratio (toFixed(3))
MetricScale == 1000

-----------------------------------------------------------------------------
(* Arithmetic helpers *)

Max(a, b) == IF a >= b THEN a ELSE b

Min(a, b) == IF a <= b THEN a ELSE b

Abs(a) == IF a >= 0 THEN a ELSE -a

\* Array.prototype.map: the n values of f, each computed once
Mapped(f, n) == SubSeq(f, 1, n)

\* Math.round(n / d) for n >= 0, d > 0: floor(x + 0.5)
RoundDiv(n, d) == (2 * n + d) \div (2 * d)

\* Math.ceil(n / d) for d > 0
CeilDiv(n, d) == -((-n) \div d)

\* Number.prototype.toFixed: nearest, halves away from zero
ToFixedDiv(n, d) == IF n >= 0 THEN RoundDiv(n, d) ELSE -RoundDiv(-n, d)

RECURSIVE MulDivQR(_, _, _)
\* <<q, r>> with a * b = q * c + r and 0 <= r < c, without forming a * b
\* (a >= 0, b >= 0, c > 0)
MulDivQR(a, b, c) ==
    IF b = 0 THEN <<0, 0>>
    ELSE LET h == MulDivQR(a, b \div 8, c)
             low == 8 * h[2] + (b % 8) * (a % c)
         IN  <<8 * h[1] + (b % 8) * (a \div c) + (low \div c), low % c>>

\* floor(a * b / c)
MulDiv(a, b, c) == MulDivQR(a, b, c)[1]

\* a * b / c truncated toward zero, for a of either sign
MulDivS(a, b, c) == IF a >= 0 THEN MulDiv(a, b, c) ELSE -MulDiv(-a, b, c)

RECURSIVE IsqrtFrom(_, _)
IsqrtFrom(x, root) == IF (root + 1) * (root + 1) > x THEN root ELSE IsqrtFrom(x, root + 1)

RECURSIVE Isqrt(_)
\* floor(sqrt(x)), x >= 0
Isqrt(x) == IF x < 16 THEN IsqrtFrom(x, 0)
            ELSE LET low == 4 * Isqrt(x \div 16)
                 IN  IF (low + 3) * (low + 3) <= x THEN low + 3
                     ELSE IF (low + 2) * (low + 2) <= x THEN low + 2
                     ELSE IF (low + 1) * (low + 1) <= x THEN low + 1
                     ELSE low

-----------------------------------------------------------------------------
(* Genome decoders: backtest.ts 59-92 *)

FastBase == 5
FastSpan == 45
SlowBase == 20
SlowSpan == 180

decodeFastMA_NoBase(g) == RoundDiv(FastSpan * g, GeneScale)

decodeFastMA(g) == Max(FastBase, RoundDiv(FastBase * GeneScale + FastSpan * g, GeneScale))

decodeSlowMA_Floor(g) == Max(SlowBase, (SlowBase * GeneScale + SlowSpan * g) \div GeneScale)

decodeSlowMA(g) == Max(SlowBase, RoundDiv(SlowBase * GeneScale + SlowSpan * g, GeneScale))

LastAsset == 27

decodeAssetIdx(g) == Min(LastAsset, Max(0, RoundDiv(g * LastAsset, GeneScale)))

archetypeFromGenome(fastMAv, slowMAv) ==
    LET f == decodeFastMA(fastMAv)
        s == decodeSlowMA(slowMAv)
        spread == s - f
    IN  IF f <= 10 /\ spread <= 25 THEN "momentum"
        ELSE IF s >= 130 THEN "defensive"
        ELSE IF spread <= 15 THEN "volatility"
        ELSE IF f >= 25 /\ s >= 80 THEN "mean-reversion"
        ELSE "hybrid"

\* runBacktest 152-155: the periods the simulator uses
SlowGap_NoCorrection(fastP, slowP) == slowP

SlowGap(fastP, slowP) ==
    IF fastP >= slowP THEN fastP + Max(10, CeilDiv(fastP * 25, 100)) ELSE slowP

simFastP(fastMAv) == decodeFastMA(fastMAv)

simSlowP(fastMAv, slowMAv) == SlowGap(decodeFastMA(fastMAv), decodeSlowMA(slowMAv))

-----------------------------------------------------------------------------
(* Fitness formula: backtest.ts 315-328.  Arguments in 1/MetricScale;      *)
(* the result is in tenths (toFixed(1)).                                   *)

Clamp(x, lo, hi) == Min(Max(x, lo), hi)

RawClamp_None(raw, lo, hi) == raw

RawClamp(raw, lo, hi) == Min(Max(raw, lo), hi)

\* raw * (6000 * MetricScale)
fitnessRaw(sharpe, totalReturnPct, winRatePct, maxDrawdownPct) ==
    LET M == MetricScale
        sNum == Clamp(sharpe, -2 * M, 4 * M) + 2 * M            \* / 6M
        rNum == Clamp(totalReturnPct, -50 * M, 150 * M) + 50 * M \* / 200M
        wNum == winRatePct                                      \* / 100M
        dNum == 60 * M - Clamp(maxDrawdownPct, 0, 60 * M)       \* / 60M
    IN  400 * sNum + 9 * rNum + 12 * wNum + 10 * dNum

computeFitness(sharpe, totalReturnPct, winRatePct, maxDrawdownPct) ==
    LET raw == fitnessRaw(sharpe, totalReturnPct, winRatePct, maxDrawdownPct)
    IN  ToFixedDiv(RawClamp(raw, 0, 6000 * MetricScale), 6 * MetricScale)

-----------------------------------------------------------------------------
(* Simulator: backtest.ts 96-311.  A bar is [date, close]; dates are the   *)
(* bar's place in its asset's history.                                     *)

INITIAL_CAPITAL == 100000

MIN_BARS_Lower == 50 - 10

MIN_BARS == 50
BACKTEST_BARS == 730

\* The simulator's numbers are binary floating-point numbers.  The averages
\* are modelled as such: [m, e] is m * 2^e with MantBits significant bits
\* (m = 0, or 2^(MantBits-1) <= m < 2^MantBits), every operation rounding its
\* exact result to the nearest such number, ties to the even mantissa.
MantBits == 24

\* the number of binary digits of x > 0
BitLen(x) == CHOOSE k \in 1..31 : 2 ^ (k - 1) <= x /\ (k = 31 \/ x < 2 ^ k)

\* a moving average that is not defined yet (null)
NoSMA == [m |-> 0 - 1, e |-> 0]

\* the mantissa m1 < 2^MantBits shifted up by sh digits, or 2^MantBits itself
FlPack(m1, e1, sh) ==
    IF m1 = 2 ^ MantBits THEN [m |-> 2 ^ (MantBits - 1), e |-> e1 + 1]
    ELSE [m |-> m1 * 2 ^ sh, e |-> e1 - sh]

\* m0 + rem / 2^w rounded to the nearest integer, ties to the even one
FlRound(m0, rem, w, e0, sh) ==
    FlPack(IF w >= 1 /\ (2 * rem > 2 ^ w \/ (2 * rem = 2 ^ w /\ m0 % 2 = 1))
           THEN m0 + 1 ELSE m0,
           e0 + w, sh)

\* T has b digits: those past MantBits join the remainder
FlBits(T, R, k, e0, b) ==
    FlRound(T \div 2 ^ (Max(0, b - MantBits)),
            (T % 2 ^ (Max(0, b - MantBits))) * 2 ^ k + R,
            k + Max(0, b - MantBits), e0, Max(0, MantBits - b))

\* the floating-point number nearest to (T * 2^k + R) * 2^e0, for
\* 0 <= R < 2^k, where T has MantBits digits or more unless R = 0
Fl(T, R, k, e0) == IF T = 0 THEN [m |-> 0, e |-> 0] ELSE FlBits(T, R, k, e0, BitLen(T))

\* a < b, for a, b >= 0
FLess(a, b) ==
    IF b.m = 0 THEN FALSE
    ELSE IF a.m = 0 THEN TRUE
    ELSE a.e < b.e \/ (a.e = b.e /\ a.m < b.m)

\* a + b rounded, for a, b >= 0
FAdd(a, b) ==
    IF a.m = 0 THEN b
    ELSE IF b.m = 0 THEN a
    ELSE LET hi == IF a.e >= b.e THEN a ELSE b
             lo == IF a.e >= b.e THEN b ELSE a
             d == hi.e - lo.e
         IN  IF d > MantBits + 1 THEN hi
             ELSE Fl(hi.m + lo.m \div 2 ^ d, lo.m % 2 ^ d, d, lo.e)

\* a - b rounded, for a >= b >= 0
FSub(a, b) ==
    IF b.m = 0 THEN a
    ELSE LET d == a.e - b.e
         IN  IF d = 0 THEN Fl(a.m - b.m, 0, 0, a.e)
             ELSE IF d > MantBits + 1 THEN a
             ELSE LET k == d - 1
                      q == b.m \div 2 ^ k
                      r == b.m % 2 ^ k
                  IN  IF r = 0 THEN Fl(2 * a.m - q, 0, k, b.e)
                      ELSE Fl(2 * a.m - q - 1, 2 ^ k - r, k, b.e)

\* a / n rounded, for a >= 0 and an integer n > 0
FDiv(a, n) ==
    IF a.m < n THEN [m |-> 0, e |-> 0]
    ELSE LET q0 == a.m \div n
             s == MantBits - BitLen(q0)
             num == (a.m % n) * 2 ^ s
             Q == q0 * 2 ^ s + num \div n
             r1 == num % n
             up == 2 * r1 > n \/ (2 * r1 = n /\ Q % 2 = 1)
         IN  IF up /\ Q + 1 = 2 ^ MantBits
             THEN [m |-> 2 ^ (MantBits - 1), e |-> a.e - s + 1]
             ELSE [m |-> IF up THEN Q + 1 ELSE Q, e |-> a.e - s]

Closes(bars) == [k \in 1..Len(bars) |-> bars[k].close]

RECURSIVE SumRange(_, _, _)
\* xs[lo] + ... + xs[hi]
SumRange(xs, lo, hi) ==
    IF lo > hi THEN 0
    ELSE IF lo = hi THEN xs[lo]
    ELSE SumRange(xs, lo, (lo + hi) \div 2) + SumRange(xs, ((lo + hi) \div 2) + 1, hi)

RECURSIVE PrefixFrom(_, _, _, _)
\* prefix[lo + 1 .. hi + 1] of computeSMA, given start = prefix[lo] (lines
\* 98-99): each entry is the rounded sum of its predecessor and a price
PrefixFrom(prices, lo, hi, start) ==
    IF lo > hi THEN <<>>
    ELSE IF lo = hi THEN <<FAdd(start, Fl(prices[lo], 0, 0, 0))>>
    ELSE LET mid == (lo + hi) \div 2
             left == PrefixFrom(prices, lo, mid, start)
         IN  left \o PrefixFrom(prices, mid + 1, hi, left[Len(left)])

\* the array prefix of computeSMA, prefix[k] at place k + 1
PrefixSum(prices) == <<[m |-> 0, e |-> 0]>> \o PrefixFrom(prices, 1, Len(prices), [m |-> 0, e |-> 0])

\* computeSMA(prices, period): the entry for the 0-based index i at place i + 1
computeSMA(prices, period) ==
    LET prefix == PrefixSum(prices)
    IN  Mapped([k \in 1..Len(prices) |->
                   IF k - 1 < period - 1 THEN NoSMA
                   ELSE FDiv(FSub(prefix[k + 1], prefix[k + 1 - period]), period)],
               Len(prices))

\* Math.tanh at 0, 0.25, 0.5, ... 5.0, in 1 / ExpScale, rounded down
TanhTable == <<0, 2449, 4621, 6351, 7615, 8482, 9051, 9413, 9640, 9780, 9866,
               9918, 9950, 9969, 9981, 9988, 9993, 9995, 9997, 9998, 9999>>

\* Math.tanh(x / ArgScale) in 1 / ExpScale for x >= 0.  Between the table's
\* points the value is interpolated; past the table it is the largest value
\* below 1; from 19.0616 on the double nearest to tanh(x) is exactly 1.
Tanh(x) ==
    IF x >= CeilDiv(190616 * ArgScale, 10000) THEN ExpScale
    ELSE LET k == (4 * x) \div ArgScale
             frac == 4 * x - k * ArgScale
         IN  IF k + 2 > Len(TanhTable) THEN TanhTable[Len(TanhTable)]
             ELSE TanhTable[k + 1]
                  + ((TanhTable[k + 2] - TanhTable[k + 1]) * frac) \div ArgScale

\* fSMA > sSMA
Above(fSMA, sSMA) == FLess(sSMA, fSMA)

ExposureCap_None(x) == x

\* x * 0.99
ExposureCap(x) == (x * 99) \div 100

\* ((fSMA - sSMA) / sSMA) * 15 in 1 / ArgScale, rounded down, for
\* fSMA > sSMA > 0; a quotient of 32 or more is past every point of Tanh
Sigma15(fSMA, sSMA) ==
    LET diff == FSub(fSMA, sSMA)
        k == diff.e - sSMA.e
    IN  IF k > 5 THEN 32 * 15 * ArgScale
        ELSE IF k >= 0 THEN MulDiv(diff.m, 15 * ArgScale * 2 ^ k, sSMA.m)
        ELSE IF k < 0 - 30 THEN 0
        ELSE MulDiv(diff.m, 15 * ArgScale, sSMA.m) \div 2 ^ (0 - k)

\* (1 - riskAversion) * Math.tanh(((fSMA - sSMA) / sSMA) * 15) * 0.99
\* (lines 213, 225-226); a zero sSMA makes the quotient Infinity and tanh 1
SizedExposure(fSMA, sSMA, riskAversion) ==
    LET th == IF sSMA.m = 0 THEN ExpScale ELSE Tanh(Sigma15(fSMA, sSMA))
    IN  ExposureCap(((GeneScale - riskAversion) * th) \div GeneScale)

\* lines 222-227
TargetExposure(fSMA, sSMA, riskAversion) ==
    IF Above(fSMA, sSMA) THEN SizedExposure(fSMA, sSMA, riskAversion) ELSE 0

\* the locals of runBacktest before the loop (lines 152-178)
StartSim(bars, fastMAv, slowMAv, riskAversion) ==
    [ phase |-> "loop", bars |-> bars,
      fastP |-> simFastP(fastMAv),
      slowP |-> simSlowP(fastMAv, slowMAv),
      fastSMA |-> computeSMA(Closes(bars), simFastP(fastMAv)),
      slowSMA |-> computeSMA(Closes(bars), simSlowP(fastMAv, slowMAv)),
      riskAversion |-> riskAversion,
      i |-> 0,
      cash |-> INITIAL_CAPITAL * MoneyScale, position |-> 0, nan |-> FALSE,
      currentExposure |-> 0, entryEquity |-> 0, wins |-> 0, losses |-> 0,
      prevFSMA |-> NoSMA, prevSSMA |-> NoSMA,
      peak |-> INITIAL_CAPITAL * MoneyScale, maxDD |-> 0,
      equityCurve |-> <<>>, tradeSignals |-> <<>>, dailyReturns |-> <<>>,
      price |-> 0, equity |-> 0, targetExposure |-> 0, bullish |-> FALSE,
      rebalanced |-> FALSE ]

\* line 190: (equity - prevEquity) / prevEquity in 1 / RetScale
DailyReturn(equity, isNaN, prev) ==
    IF isNaN \/ prev.nan \/ prev.equity = 0 THEN [v |-> 0, finite |-> FALSE]
    ELSE [v |-> MulDivS(equity - prev.equity, RetScale, prev.equity), finite |-> TRUE]

\* line 238: Math.min(delta * price, cash)
BuyCost(want, cash) == Min(want, cash)

\* lines 232-264 for finite cash and position: the rebalance toward
\* targetExposure at `price`, with `equity` the bar's mark-to-market equity
Rebalance(s, price, equity, targetExposure) ==
    LET targetPositionDollar == MulDiv(equity, targetExposure, ExpScale)
    IN  IF price = 0
        THEN \* targetUnits is Infinity (or NaN, for a zero target)
             IF targetPositionDollar > 0
             THEN \* delta = Infinity: cost = Math.min(Infinity * 0, cash) = NaN
                  [s EXCEPT !.nan = TRUE, !.cash = 0, !.position = 0,
                            !.entryEquity = IF s.currentExposure = 0
                                            THEN equity ELSE @,
                            !.currentExposure = 0]
             ELSE \* delta = NaN: neither branch; position * 0 / max(equity, 1)
                  [s EXCEPT !.currentExposure = 0]
        ELSE
        LET targetUnits == targetPositionDollar \div price
            delta == targetUnits - s.position
        IN  IF delta > 0
            THEN LET cost == BuyCost(delta * price, s.cash)
                     actualUnits == cost \div price
                     position == s.position + actualUnits
                 IN  [s EXCEPT !.position = position,
                               !.cash = s.cash - cost,
                               !.entryEquity = IF s.currentExposure = 0
                                               THEN equity ELSE @,
                               !.currentExposure =
                                   MulDiv(position * price, ExpScale,
                                          Max(equity, MoneyScale))]
            ELSE IF delta < 0
            THEN LET actualUnits == Min(-delta, s.position)
                     proceeds == actualUnits * price
                     position == s.position - actualUnits
                     cash == s.cash + proceeds
                     \* position * price < equity * 0.005
                     fullExit == position * price < CeilDiv(equity, 200)
                     exitEquity == cash + position * price
                 IN  IF fullExit
                     THEN [s EXCEPT !.position = 0, !.cash = exitEquity,
                                    !.wins = IF exitEquity > s.entryEquity
                                             THEN @ + 1 ELSE @,
                                    !.losses = IF exitEquity > s.entryEquity
                                               THEN @ ELSE @ + 1,
                                    !.currentExposure = 0]
                     ELSE [s EXCEPT !.position = position, !.cash = cash,
                                    !.currentExposure =
                                        MulDiv(position * price, ExpScale,
                                               Max(equity, MoneyScale))]
            ELSE [s EXCEPT !.currentExposure =
                               MulDiv(s.position * price, ExpScale,
                                      Max(equity, MoneyScale))]

\* line 230: the exposure shift (in percent) that is not worth a rebalance
RebalanceBand == 1

\* one iteration of the loop over the bars (lines 180-265)
BarStep(s) ==
    LET i == s.i
        bar == s.bars[i + 1]
        price == bar.close
        equity == IF s.nan THEN 0 ELSE s.cash + s.position * price
        returns == IF i > 0
                   THEN Append(s.dailyReturns,
                               DailyReturn(equity, s.nan,
                                           s.equityCurve[Len(s.equityCurve)]))
                   ELSE s.dailyReturns
        curve == Append(s.equityCurve,
                        [date |-> bar.date, equity |-> equity, nan |-> s.nan])
        peak == IF ~s.nan /\ equity > s.peak THEN equity ELSE s.peak
        dd == IF s.nan \/ peak = 0 THEN 0
              ELSE MulDiv(peak - equity, 100 * MetricScale, peak)
        maxDD == IF ~s.nan /\ dd > s.maxDD THEN dd ELSE s.maxDD
        fSMA == s.fastSMA[i + 1]
        sSMA == s.slowSMA[i + 1]
        marked == [s EXCEPT !.i = i + 1, !.price = price, !.equity = equity,
                            !.dailyReturns = returns, !.equityCurve = curve,
                            !.peak = peak, !.maxDD = maxDD,
                            !.prevFSMA = fSMA, !.prevSSMA = sSMA,
                            !.targetExposure = 0, !.bullish = FALSE,
                            !.rebalanced = FALSE]
    IN  IF fSMA = NoSMA \/ sSMA = NoSMA THEN marked
        ELSE
        LET bullish == Above(fSMA, sSMA)
            hadPrev == s.prevFSMA # NoSMA /\ s.prevSSMA # NoSMA
            wasAbove == Above(s.prevFSMA, s.prevSSMA)
            signals ==
                IF hadPrev /\ bullish /\ ~wasAbove
                THEN Append(s.tradeSignals,
                            [date |-> bar.date, price |-> price, action |-> "entry",
                             exposure |-> SizedExposure(fSMA, sSMA,
                                                        s.riskAversion)])
                ELSE IF hadPrev /\ ~bullish /\ wasAbove
                THEN Append(s.tradeSignals,
                            [date |-> bar.date, price |-> price, action |-> "exit",
                             exposure |-> 0])
                ELSE s.tradeSignals
            targetExposure == TargetExposure(fSMA, sSMA, s.riskAversion)
            seen == [marked EXCEPT !.tradeSignals = signals, !.bullish = bullish,
                                   !.targetExposure = targetExposure]
        IN  IF ~s.nan /\ Abs(targetExposure - s.currentExposure) * 100
                           <= RebalanceBand * ExpScale
            THEN seen
            ELSE IF s.nan
            THEN \* every quantity is NaN: neither branch is taken
                 [seen EXCEPT !.rebalanced = TRUE]
            ELSE Rebalance([seen EXCEPT !.rebalanced = TRUE], price, equity,
                           targetExposure)

SumReturns(rs, k) == SumRange([j \in 1..Len(rs) |-> rs[j].v], 1, k)

\* sum of (r - mean)^2 over the first k returns, in 1 / RetScale
SumSquares(rs, k, sum) ==
    SumRange([j \in 1..Len(rs) |->
                 LET dev == Abs(ToFixedDiv(Len(rs) * rs[j].v - sum, Len(rs)))
                 IN  MulDiv(dev, dev, RetScale)], 1, k)

\* lines 270-278, in 1 / MetricScale.  A return that is not finite makes the
\* mean and the deviation NaN, and `std > 0` false.
Sharpe(rs) ==
    LET n == Len(rs) IN
    IF n <= 2 \/ \E k \in 1..n : ~rs[k].finite THEN 0
    ELSE LET sum == SumReturns(rs, n)
             variance == SumSquares(rs, n, sum) \div n
             \* Math.sqrt(variance); past 32 bits of variance * RetScale, to
             \* the nearest ten
             std == IF variance <= 200000 THEN Isqrt(variance * RetScale)
                    ELSE 10 * Isqrt((variance \div 100) * RetScale)
         IN  IF std > 0
             THEN MulDivS(sum, Isqrt(252 * MetricScale * MetricScale), n * std)
             ELSE 0

WinRate_Half(wins, losses) ==
    IF wins + losses > 0 THEN (wins * 100 * MetricScale) \div (wins + losses)
    ELSE 50 * MetricScale

\* line 281, in 1 / MetricScale
WinRate(wins, losses) ==
    IF wins + losses > 0 THEN (wins * 100 * MetricScale) \div (wins + losses)
    ELSE 0

\* lines 289-294: the consistency penalty, in percent
ConsistencyPenalty(midPoint, finalEquity, finalNaN) ==
    IF midPoint.nan \/ finalNaN \/ midPoint.equity <= 0 THEN 100
    ELSE IF 5 * finalEquity < 4 * midPoint.equity THEN 50
    ELSE IF 20 * finalEquity < 19 * midPoint.equity THEN 75
    ELSE 100

\* runBacktest returned null (line 150)
NullResult ==
    [ isNull |-> TRUE, nan |-> FALSE, totalReturn |-> 0, sharpe |-> 0,
      maxDrawdown |-> 0, winRate |-> 0, trades |-> 0, fitness |-> 0,
      fastPeriod |-> 0, slowPeriod |-> 0, asset |-> 0,
      equityCurve |-> <<>>, tradeSignals |-> <<>> ]

\* lines 267-310: the result of a finished loop.  totalReturn and maxDrawdown
\* in hundredths of a percent, sharpe in thousandths, winRate and fitness in
\* tenths; `nan` says that totalReturn and fitness are NaN.
Finish(s) ==
    LET closes == Closes(s.bars)
        capital == INITIAL_CAPITAL * MoneyScale
        finalEquity == IF s.nan THEN 0 ELSE s.cash + s.position * closes[Len(closes)]
        totalReturn == IF s.nan THEN 0
                       ELSE MulDivS(finalEquity - capital, 100 * MetricScale, capital)
        sharpe == Sharpe(s.dailyReturns)
        winRate == WinRate(s.wins, s.losses)
        baseFitness == computeFitness(sharpe, totalReturn, winRate, s.maxDD)
        midIdx == Len(s.equityCurve) \div 2
        penalty == ConsistencyPenalty(s.equityCurve[midIdx + 1], finalEquity, s.nan)
    IN  [ isNull |-> FALSE, nan |-> s.nan,
          totalReturn |-> ToFixedDiv(totalReturn, MetricScale \div 100),
          sharpe |-> sharpe,
          maxDrawdown |-> ToFixedDiv(s.maxDD, MetricScale \div 100),
          winRate |-> ToFixedDiv(winRate, MetricScale \div 10),
          trades |-> s.wins + s.losses,
          fitness |-> IF s.nan THEN 0 ELSE ToFixedDiv(baseFitness * penalty, 100),
          fastPeriod |-> s.fastP, slowPeriod |-> s.slowP, asset |-> 0,
          equityCurve |-> s.equityCurve, tradeSignals |-> s.tradeSignals ]

RECURSIVE RunBars(_, _)
\* `count` iterations of the loop of line 180, the first half of them
\* finished before the second half starts
RunBars(s, count) ==
    IF count = 0 THEN s
    ELSE IF count = 1 THEN BarStep(s)
    ELSE LET half == RunBars(s, count \div 2)
         IN  IF half.i <= Len(half.bars) THEN RunBars(half, count - (count \div 2))
             ELSE half

\* the loop of line 180, run to its end
RunLoop(s) == RunBars(s, Len(s.bars) - s.i)

\* lines 143-311
runBacktest(bars, fastMAv, slowMAv, riskAversion) ==
    IF Len(bars) < MIN_BARS THEN NullResult
    ELSE Finish(RunLoop(StartSim(bars, fastMAv, slowMAv, riskAversion)))

-----------------------------------------------------------------------------
(* Agent-level helper and breeding: backtest.ts 337-399.  An asset is its  *)
(* index in the symbol table; priceHistory maps the assets that have bars  *)
(* to their bars.                                                          *)

LastBars_All(allBars) == allBars

\* allBars.slice(-BACKTEST_BARS)
LastBars(allBars) ==
    SubSeq(allBars, Max(1, Len(allBars) - BACKTEST_BARS + 1), Len(allBars))

\* lines 339-360
backtestAgent(agent, ph) ==
    LET sym == decodeAssetIdx(agent.genome.assetIdx)
    IN  IF sym \notin DOMAIN ph THEN NullResult
        ELSE IF Len(ph[sym]) < MIN_BARS THEN NullResult
        ELSE LET r == runBacktest(LastBars(ph[sym]), agent.genome.fastMA,
                                  agent.genome.slowMA, agent.genome.riskAversion)
             IN  IF r.isNull THEN NullResult ELSE [r EXCEPT !.asset = sym]

\* Math.random(): one of NumSeeds streams of values x / RandMod in [0, 1)
RandMod == 65537
NumSeeds == 4
Seeds == 0..(NumSeeds - 1)

\* the k-th value of the stream of `seed` (k >= 1)
Draw(seed, k) == ((seed + 1) * 7919 * k * k + 104729 * k + 31337 * seed) % RandMod

\* Math.floor(Math.random() * len)
DrawIndex(x, len) == (x * len) \div RandMod

clamp01_None(v) == v

\* lines 371-373
clamp01(v) == Min(GeneScale, Max(0, v))

\* the mutation magnitude, in percent (line 381)
MUT == 12

\* lines 383-385, for the draws x1 and x2
blend(a, b, x1, x2) ==
    clamp01((100 * RandMod * a + 100 * (b - a) * x1 + (2 * x2 - RandMod) * MUT * GeneScale)
            \div (100 * RandMod))

\* lines 376-399: the draws k+1 .. k+8 of the stream are taken in the
\* order of the calls of rand()
crossoverMutate(p1, p2, seed, k) ==
    LET assetIdx == IF 4 * Draw(seed, k + 1) < 3 * RandMod
                    THEN (IF 2 * Draw(seed, k + 2) < RandMod
                          THEN p1.assetIdx ELSE p2.assetIdx)
                    ELSE (Draw(seed, k + 2) * GeneScale) \div RandMod
    IN  [ fastMA |-> blend(p1.fastMA, p2.fastMA, Draw(seed, k + 3), Draw(seed, k + 4)),
          slowMA |-> blend(p1.slowMA, p2.slowMA, Draw(seed, k + 5), Draw(seed, k + 6)),
          riskAversion |-> blend(p1.riskAversion, p2.riskAversion,
                                 Draw(seed, k + 7), Draw(seed, k + 8)),
          assetIdx |-> clamp01(assetIdx) ]

-----------------------------------------------------------------------------
(* runGeneration: part_001 233-399.  An agent's id is the number of its    *)
(* "AGT-<number>" id; its name is left out.  fitness, maxDrawdown, winRate *)
(* and totalReturn of an agent are in tenths, sharpe in hundredths.        *)

\* lines 248, 301: the metrics of a result, as an agent keeps them
ApplyResult(agent, r) ==
    [agent EXCEPT !.fitness = r.fitness,
                  !.sharpe = ToFixedDiv(r.sharpe, MetricScale \div 100),
                  !.maxDrawdown = ToFixedDiv(r.maxDrawdown, 10),
                  !.winRate = r.winRate,
                  !.totalReturn = ToFixedDiv(r.totalReturn, 10),
                  !.trades = r.trades]

\* a result as backtestResults keeps it; the curves, which only the charts
\* read, are left out
Stored(r) == [r EXCEPT !.equityCurve = <<>>, !.tradeSignals = <<>>]

\* line 241
Active(as) == SelectSeq(as, LAMBDA a : a.status # "extinct")

Ids(as) == {as[k].id : k \in 1..Len(as)}

RECURSIVE SumFitness(_, _)
SumFitness(as, k) == IF k = 0 THEN 0 ELSE SumFitness(as, k - 1) + as[k].fitness

MaxOf_First(f, k) == IF k = 0 THEN 0 ELSE f[1]

RECURSIVE MaxOf(_, _)
MaxOf(f, k) == IF k = 0 THEN 0 ELSE Max(MaxOf(f, k - 1), f[k])

NichePenalty_Flat(c, n) == IF 5 * c > 2 * n THEN 3 * n ELSE 0

\* line 265: the penalty times 12 * n, for an asset that c of the n scored
\* agents trade: share > 0.40 ? min(0.25, (share - 0.40) / 0.60 * 0.25) : 0
NichePenalty(c, n) == IF 5 * c > 2 * n THEN Min(3 * n, 5 * c - 2 * n) ELSE 0

CullCount_AllButOne(len) == Max(1, len - 1)

CullCount_Floor(len) == (len * 20) \div 100

\* line 270
CullCount(len) == Max(1, (len * 20) \div 100)

BreedCount_All(len) == len

\* line 272
BreedCount(len) == Max(2, (len * 30) \div 100)

\* lines 244-251 and 297-304: the backtest of every agent of `as`
Scored(as, ph) ==
    Mapped([k \in 1..Len(as) |-> backtestAgent(as[k], ph)], Len(as))

\* lines 257-268: nicheSelectFitness of every agent, times 12 * n
Keys(backtested, res) ==
    LET scored == {k \in 1..Len(res) : ~res[k].isNull}
        n == IF scored = {} THEN 1 ELSE Cardinality(scored)
        aCount(asset) == Cardinality({k \in scored : res[k].asset = asset})
    IN  Mapped([k \in 1..Len(backtested) |->
                   IF res[k].isNull THEN backtested[k].fitness * 12 * n
                   ELSE backtested[k].fitness
                        * (12 * n - NichePenalty(aCount(res[k].asset), n))],
               Len(backtested))

\* every agent with the selection fitness in the place of its fitness
Applied_Penalised(as, res) ==
    LET plain == Mapped([k \in 1..Len(as) |->
                            IF res[k].isNull THEN as[k] ELSE ApplyResult(as[k], res[k])],
                        Len(as))
        keys == Keys(plain, res)
        n == Max(1, Cardinality({k \in 1..Len(res) : ~res[k].isNull}))
    IN  Mapped([k \in 1..Len(as) |-> [plain[k] EXCEPT !.fitness = keys[k] \div (12 * n)]],
               Len(as))

\* lines 246-250 and 299-303: every agent with the metrics of its result,
\* or as it was when it has none
Applied(as, res) ==
    Mapped([k \in 1..Len(as) |->
               IF res[k].isNull THEN as[k] ELSE ApplyResult(as[k], res[k])], Len(as))

\* line 269: the stable sort, descending by key
SortedBy(backtested, key) ==
    LET count == Len(backtested)
        \* the place of backtested[k] after the sort
        rank(k) == Cardinality({j \in 1..count : key[j] > key[k]})
                   + Cardinality({j \in 1..(k - 1) : key[j] = key[k]}) + 1
        ranks == Mapped([k \in 1..count |-> rank(k)], count)
    IN  Mapped([p \in 1..count |-> backtested[CHOOSE k \in 1..count : ranks[k] = p]],
               count)

Selected_Top(active, res, backtested, sorted) ==
    [ active |-> active, res |-> res, backtested |-> backtested, sorted |-> sorted,
      cullCount |-> CullCount(Len(sorted)),
      bottom |-> SubSeq(sorted, 1, Min(Len(sorted), CullCount(Len(sorted)))),
      topBreed |-> SubSeq(sorted, 1, Min(Len(sorted), BreedCount(Len(sorted)))) ]

\* lines 270-272
Selected(active, res, backtested, sorted) ==
    [ active |-> active, res |-> res, backtested |-> backtested, sorted |-> sorted,
      cullCount |-> CullCount(Len(sorted)),
      bottom |-> SubSeq(sorted, Max(1, Len(sorted) - CullCount(Len(sorted)) + 1),
                        Len(sorted)),
      topBreed |-> SubSeq(sorted, 1, Min(Len(sorted), BreedCount(Len(sorted)))) ]

Ranked(active, res, backtested) ==
    Selected(active, res, backtested, SortedBy(backtested, Keys(backtested, res)))

ScoredSelection(active, res) == Ranked(active, res, Applied(active, res))

\* lines 241-272: scoring and selection over the agents `as`
Selection(as, ph) == ScoredSelection(Active(as), Scored(Active(as), ph))

\* lines 277-294: the i-th offspring (i from 0), before its backtest
RawOffspring(as, topBreed, gen, seed, i) ==
    LET maxId == MaxOf([k \in 1..Len(as) |-> as[k].id], Len(as))
        p1 == topBreed[DrawIndex(Draw(seed, 12 * i + 1), Len(topBreed)) + 1]
        p2 == topBreed[DrawIndex(Draw(seed, 12 * i + 2), Len(topBreed)) + 1]
        childGenome == crossoverMutate(p1.genome, p2.genome, seed, 12 * i + 2)
    IN  [ id |-> maxId + i + 1, generation |-> gen + 1, fitness |-> 500,
          status |-> "newborn",
          archetype |-> archetypeFromGenome(childGenome.fastMA, childGenome.slowMA),
          sharpe |-> 0, maxDrawdown |-> 0, winRate |-> 0, totalReturn |-> 0,
          trades |-> 0, parentIds |-> <<p1.id, p2.id>>, genome |-> childGenome ]

NextStatus_Keep(a, culled) == IF culled THEN "extinct" ELSE a.status

NextStatus_Reactivate(a, culled) == IF culled THEN "extinct" ELSE "active"

\* lines 310, 312: the status an agent of the population leaves the cycle with
NextStatus(a, culled) ==
    IF culled THEN "extinct"
    ELSE IF a.status = "newborn" THEN "active" ELSE a.status

Survived_Restamped(as, backtested, cullIds) ==
    Mapped([k \in 1..Len(as) |->
               [as[k] EXCEPT !.status = NextStatus(as[k], as[k].id \in cullIds),
                             !.generation = @ + 1]], Len(as))

\* lines 309-314
Survived(as, backtested, cullIds) ==
    Mapped([k \in 1..Len(as) |->
               LET a == as[k]
                   found == {j \in 1..Len(backtested) : backtested[j].id = a.id}
               IN  IF a.id \in cullIds THEN [a EXCEPT !.status = NextStatus(a, TRUE)]
                   ELSE IF found # {}
                        THEN [backtested[CHOOSE j \in found : \A i \in found : j <= i]
                                  EXCEPT !.status = NextStatus(a, FALSE)]
                        ELSE [a EXCEPT !.status = NextStatus(a, FALSE)]], Len(as))

\* line 306: { ...prev, ...newResults }
Merge(prev, new) ==
    [id \in (DOMAIN prev) \cup (DOMAIN new) |->
        IF id \in DOMAIN new THEN new[id] ELSE prev[id]]

\* the results of the agents `as` that have one, by id
ResultsOf(as, res) ==
    [id \in {as[k].id : k \in {j \in 1..Len(as) : ~res[j].isNull}} |->
        Stored(res[CHOOSE k \in 1..Len(as) : as[k].id = id /\ ~res[k].isNull])]

RECURSIVE WeightedSum(_, _, _, _)
\* the sum over the first k agents of weight * value / total, as <<quotient,
\* remainder>> with the remainder over `total`
WeightedSum(weight, value, total, k) ==
    IF k = 0 THEN <<0, 0>>
    ELSE LET rest == WeightedSum(weight, value, total, k - 1)
             term == MulDivQR(weight[k], value[k], total)
             r == rest[2] + term[2]
         IN  <<rest[1] + term[1] + (r \div total), r % total>>

\* lines 326-337: the fitness-weighted return of the next population on
\* INITIAL_CAPITAL, capped at -50 % / +200 %
Snapshot(activeNext, results, gen) ==
    LET n == Len(activeNext)
        \* Math.max(a.fitness, 0.01), in hundredths
        weight == [k \in 1..n |-> Max(activeNext[k].fitness * 10, 1)]
        \* the total return, in hundredths of a percent
        ret == [k \in 1..n |->
                   IF activeNext[k].id \in DOMAIN results
                   THEN results[activeNext[k].id].totalReturn
                   ELSE activeNext[k].totalReturn * 10]
        \* INITIAL_CAPITAL * (1 + r / 100)
        value == [k \in 1..n |-> 10 * (ret[k] + 100 * 100)]
        total == SumFitness([k \in 1..n |-> [fitness |-> weight[k]]], n)
        sum == WeightedSum(weight, value, total, n)
        low == INITIAL_CAPITAL \div 2
        high == 3 * INITIAL_CAPITAL
        capped == IF sum[1] < low THEN <<low, 0>>
                  ELSE IF sum[1] >= high THEN <<high, 0>>
                  ELSE sum
        newCapital == capped[1] + (IF 2 * capped[2] >= total THEN 1 ELSE 0)
        gain == capped[1] - INITIAL_CAPITAL
    IN  [ capital |-> newCapital, pnl |-> newCapital - INITIAL_CAPITAL,
          \* genReturn * 100, to two decimals, in hundredths
          pnlPercent |-> LET part == (gain % 10) * total + capped[2]
                         IN  (gain \div 10)
                             + (IF 2 * part > 10 * total THEN 1
                                ELSE IF 2 * part = 10 * total /\ gain >= 0 THEN 1
                                ELSE 0),
          generation |-> gen + 1 ]

\* lines 315-354 and 379-392: the state the cycle sets and what it reports
Report(sel, gen, seed, offspring, activeNext, snapshot) ==
    LET avgBefore == ToFixedDiv(SumFitness(sel.sorted, Len(sel.sorted)), Len(sel.sorted))
        avgAfter == ToFixedDiv(SumFitness(activeNext, Len(activeNext)), Len(activeNext))
        topFit == MaxOf([k \in 1..Len(activeNext) |-> activeNext[k].fitness],
                        Len(activeNext))
    IN  [ portfolio |-> snapshot,
          genData |-> [gen |-> gen + 1, avgFitness |-> avgAfter, topFitness |-> topFit,
                       population |-> Len(activeNext),
                       diversity |-> RoundDiv(60 * RandMod
                                              + 30 * Draw(seed, 12 * sel.cullCount + 1),
                                              RandMod)],
          summary |-> [generation |-> gen + 1,
                       culled |-> [k \in 1..Len(sel.bottom) |->
                                      [id |-> sel.bottom[k].id,
                                       fitness |-> sel.bottom[k].fitness]],
                       born |-> [k \in 1..Len(offspring) |->
                                    [id |-> offspring[k].id,
                                     fitness |-> offspring[k].fitness,
                                     parentIds |-> offspring[k].parentIds]],
                       avgFitnessBefore |-> avgBefore, avgFitnessAfter |-> avgAfter,
                       topFitness |-> topFit, capitalAfter |-> snapshot.capital],
          toast |-> [title |-> "complete", generation |-> gen + 1,
                     culled |-> sel.cullCount, born |-> Len(offspring)] ]

\* lines 306-337: the next population and its snapshot
Assembled(sel, results, gen, seed, offspring, newResults, allNext) ==
    [ cullCount |-> sel.cullCount, allNext |-> allNext, newResults |-> newResults,
      report |-> Report(sel, gen, seed, offspring, Active(allNext),
                        Snapshot(Active(allNext), Merge(results, newResults), gen)) ]

\* lines 297-314
Offspring(sel, as, results, gen, seed, raw, ores) ==
    Assembled(sel, results, gen, seed, Applied(raw, ores),
              Merge(ResultsOf(sel.active, sel.res), ResultsOf(raw, ores)),
              Survived(as, sel.backtested, Ids(sel.bottom)) \o Applied(raw, ores))

\* lines 278-294
Bred(sel, as, ph, results, gen, seed, raw) ==
    Offspring(sel, as, results, gen, seed, raw, Scored(raw, ph))

\* lines 276-354: what the try block computes, after the selection `sel`,
\* before it persists
Cycle(sel, as, ph, results, gen, seed) ==
    Bred(sel, as, ph, results, gen, seed,
         Mapped([i \in 1..sel.cullCount |->
                    RawOffspring(as, sel.topBreed, gen, seed, i - 1)], sel.cullCount))

-----------------------------------------------------------------------------
(* The state outside a specification's scope *)

NoCall == [fn |-> "none", done |-> FALSE]

NoSim == [phase |-> "idle"]

\* useState<PriceHistory>({}): no symbol has bars
NoPrices == [a \in {} |-> <<>>]

\* useState<Record<string, BacktestResult>>({})
NoResults == [id \in {} |-> NullResult]

NoToast == [title |-> "none", generation |-> 0, culled |-> 0, born |-> 0]

\* useState<GenSummary | null>(null)
NoSummary == [generation |-> 0, culled |-> <<>>, born |-> <<>>]

\* what a render hands to the handlers and the buttons: the state that the
\* closures of refreshPriceData (deps of line 230) and runGeneration (deps
\* of line 399) capture, and the flags behind the two `disabled` props
Shown ==
    [ agents |-> agents, priceHistory |-> priceHistory, currentGen |-> currentGen,
      backtestResults |-> backtestResults, isRunning |-> isRunning,
      isPriceRefreshing |-> isPriceRefreshing ]

GenIdle ==
    /\ agents = <<>>
    /\ currentGen = 0
    /\ genHistory = <<>>
    /\ portfolio = [capital |-> INITIAL_CAPITAL, pnl |-> 0, pnlPercent |-> 0,
                    generation |-> 0]
    /\ priceHistory = NoPrices
    /\ backtestResults = NoResults
    /\ toast = NoToast
    /\ generationSummary = NoSummary
    /\ isRunning = FALSE
    /\ isPriceRefreshing = FALSE
    /\ inflight = <<>>
    /\ rendered = [dom |-> Shown, ref |-> Shown]

-----------------------------------------------------------------------------
(* SpecCodec: the decoders applied to every pair of period genes *)

Genes == 0..GeneScale

CodecInit ==
    /\ GenIdle
    /\ sim = NoSim
    /\ \E f \in Genes, sl \in Genes :
           call = [fn |-> "decode", done |-> FALSE, fastMA |-> f, slowMA |-> sl,
                   fast |-> 0, slow |-> 0, archetype |-> "", spread |-> 0,
                   fastPeriod |-> 0, slowPeriod |-> 0]

Decode ==
    /\ call.fn = "decode" /\ ~call.done
    /\ call' = [call EXCEPT !.done = TRUE,
                            !.fast = decodeFastMA(call.fastMA),
                            !.slow = decodeSlowMA(call.slowMA),
                            !.spread = decodeSlowMA(call.slowMA) - decodeFastMA(call.fastMA),
                            !.archetype = archetypeFromGenome(call.fastMA, call.slowMA),
                            !.fastPeriod = simFastP(call.fastMA),
                            !.slowPeriod = simSlowP(call.fastMA, call.slowMA)]
    /\ UNCHANGED <<genVars, sim>>

SpecCodec == CodecInit /\ [][Decode]_vars

-----------------------------------------------------------------------------
(* SpecFitness: computeFitness applied to a grid of metrics, in and out of *)
(* their nominal ranges                                                    *)

SharpeGrid == {k * MetricScale : k \in -3..5}
ReturnGrid == {k * 25 * MetricScale : k \in -3..7}
WinRateGrid == {k * 50 * MetricScale : k \in {-20, -1, 0, 1, 2, 3, 20}}
DrawdownGrid == {k * 10 * MetricScale : k \in {-1, 0, 3, 6, 7}}

FitnessInit ==
    /\ GenIdle
    /\ sim = NoSim
    /\ \E sh \in SharpeGrid, r \in ReturnGrid, w \in WinRateGrid, d \in DrawdownGrid :
           call = [fn |-> "computeFitness", done |-> FALSE, sharpe |-> sh,
                   totalReturnPct |-> r, winRatePct |-> w, maxDrawdownPct |-> d,
                   raw |-> 0, ret |-> 0]

Fitness ==
    /\ call.fn = "computeFitness" /\ ~call.done
    /\ call' = [call EXCEPT !.done = TRUE,
                            !.raw = fitnessRaw(call.sharpe, call.totalReturnPct,
                                               call.winRatePct, call.maxDrawdownPct),
                            !.ret = computeFitness(call.sharpe, call.totalReturnPct,
                                                   call.winRatePct, call.maxDrawdownPct)]
    /\ UNCHANGED <<genVars, sim>>

SpecFitness == FitnessInit /\ [][Fitness]_vars

-----------------------------------------------------------------------------
(* SpecNiche: nicheSelectFitness over small scored populations             *)

MaxScored == 5
NicheAssets == {0, 1}

\* the backtest outcome of an agent, as far as the niche closure reads it:
\* none (0), or a result on the first or on the second asset
NicheOutcomes == {0} \cup {a + 1 : a \in NicheAssets}

NicheInit ==
    /\ GenIdle
    /\ sim = NoSim
    /\ \E count \in 1..MaxScored :
       \E outcome \in [1..count -> NicheOutcomes] :
           call = [fn |-> "nicheSelectFitness", done |-> FALSE,
                   backtested |-> [k \in 1..count |-> [id |-> k, fitness |-> 125 * k]],
                   res |-> [k \in 1..count |->
                               [isNull |-> outcome[k] = 0, asset |-> outcome[k] - 1]],
                   keys |-> <<>>]

\* part_001 lines 257-268, for every agent of `backtested`
Niche ==
    /\ call.fn = "nicheSelectFitness" /\ ~call.done
    /\ call' = [call EXCEPT !.done = TRUE, !.keys = Keys(call.backtested, call.res)]
    /\ UNCHANGED <<genVars, sim>>

SpecNiche == NicheInit /\ [][Niche]_vars

-----------------------------------------------------------------------------
(* SpecBreed: crossoverMutate over parents on a grid of genes, and blend   *)
(* over the extremes of the random source                                  *)

GeneGrid == {0, 1, GeneScale \div 2, GeneScale - 1, GeneScale}

\* values of rand(): 0, the smallest above 0, the middle, the largest
RandGrid == {0, 1, RandMod \div 2, RandMod - 1}

\* the places of the random stream a call may start from
DrawOffsets == {0, 2, 14}

BreedInit ==
    /\ GenIdle
    /\ sim = NoSim
    /\ \/ \E a1 \in GeneGrid, b1 \in GeneGrid, a2 \in GeneGrid, b2 \in GeneGrid,
            seed \in Seeds, k \in DrawOffsets :
              call = [fn |-> "crossoverMutate", done |-> FALSE,
                      p1 |-> [fastMA |-> a1, slowMA |-> b1, riskAversion |-> a1,
                              assetIdx |-> b1],
                      p2 |-> [fastMA |-> a2, slowMA |-> b2, riskAversion |-> b2,
                              assetIdx |-> a2],
                      seed |-> seed, k |-> k,
                      ret |-> [fastMA |-> 0, slowMA |-> 0, riskAversion |-> 0,
                               assetIdx |-> 0]]
       \/ \E a \in GeneGrid, b \in GeneGrid, x1 \in RandGrid, x2 \in RandGrid :
              call = [fn |-> "blend", done |-> FALSE, a |-> a, b |-> b,
                      x1 |-> x1, x2 |-> x2, ret |-> 0]

\* backtest.ts lines 376-399
CrossoverMutate ==
    /\ call.fn = "crossoverMutate" /\ ~call.done
    /\ call' = [call EXCEPT !.done = TRUE,
                            !.ret = crossoverMutate(call.p1, call.p2, call.seed, call.k)]
    /\ UNCHANGED <<genVars, sim>>

\* backtest.ts lines 383-385
Blend ==
    /\ call.fn = "blend" /\ ~call.done
    /\ call' = [call EXCEPT !.done = TRUE,
                            !.ret = blend(call.a, call.b, call.x1, call.x2)]
    /\ UNCHANGED <<genVars, sim>>

SpecBreed == BreedInit /\ [][CrossoverMutate \/ Blend]_vars

-----------------------------------------------------------------------------
(* SpecBacktest: runBacktest, one loop iteration per step, over series of  *)
(* three price levels                                                      *)

NumBars == 52

\* the length of a history that is too short to be simulated
ShortHistory == 49

Levels == {0, 1, 2, 5}
ChangePoints == {<<22, 36>>, <<26, 40>>}

ThreeLevel(a, b, c, t1, t2, n) ==
    [k \in 1..n |-> [date |-> k,
                     close |-> IF k <= t1 THEN a ELSE IF k <= t2 THEN b ELSE c]]

BarSeries ==
    {ThreeLevel(a, b, c, t[1], t[2], NumBars) : a \in Levels, b \in Levels,
                                                c \in Levels, t \in ChangePoints}
    \cup {ThreeLevel(1, 1, 1, 1, 1, ShortHistory)}
    \* a rise, one bar that closes at 0, and a recovery
    \cup {[ThreeLevel(1, 2, 5, t, t + 1, NumBars) EXCEPT ![t + 2].close = 0] :
             t \in {20, 24}}

FastGenes == {0, GeneScale}
SlowGenes == {0}
RiskGenes == {0, GeneScale \div 2, GeneScale}

BacktestInit ==
    /\ GenIdle
    /\ \E bars \in BarSeries, f \in FastGenes, sl \in SlowGenes, ra \in RiskGenes :
          /\ call = [fn |-> "runBacktest", done |-> FALSE, fastMA |-> f,
                     slowMA |-> sl, riskAversion |-> ra, bars |-> bars,
                     ret |-> NullResult]
          /\ sim = NoSim

\* lines 150-178
Enter ==
    /\ call.fn = "runBacktest" /\ ~call.done /\ sim.phase = "idle"
    /\ IF Len(call.bars) < MIN_BARS
       THEN /\ call' = [call EXCEPT !.done = TRUE, !.ret = NullResult]
            /\ sim' = sim
       ELSE /\ sim' = StartSim(call.bars, call.fastMA, call.slowMA, call.riskAversion)
            /\ call' = call
    /\ UNCHANGED genVars

\* lines 180-265
Bar ==
    /\ sim.phase = "loop" /\ sim.i < Len(sim.bars)
    /\ sim' = BarStep(sim)
    /\ UNCHANGED <<genVars, call>>

\* lines 267-310
Return ==
    /\ sim.phase = "loop" /\ sim.i = Len(sim.bars)
    /\ sim' = [sim EXCEPT !.phase = "done"]
    /\ call' = [call EXCEPT !.done = TRUE, !.ret = Finish(sim)]
    /\ UNCHANGED genVars

SpecBacktest == BacktestInit /\ [][Enter \/ Bar \/ Return]_vars

-----------------------------------------------------------------------------
(* SpecScenario: whole calls of runBacktest over the two end-to-end        *)
(* series (a flat one, and one that rises and then falls), over waves and  *)
(* over a series that steps up                                             *)

ScenarioBars == 800

Flat(c, n) == [k \in 1..n |-> [date |-> k, close |-> c]]

\* n \div 2 bars up from base by step, then down by step to the end
Trend(base, step, n) ==
    [k \in 1..n |-> [date |-> k,
                     close |-> IF k <= n \div 2 THEN base + step * k
                               ELSE base + step * (2 * (n \div 2) - k)]]

\* a triangle wave above base, of period p1 over the first half of the n
\* bars and of period p2 over the second
Wave(base, p1, p2, n) ==
    [k \in 1..n |->
        LET p == IF 2 * k <= n THEN p1 ELSE p2
            r == k % p
        IN  [date |-> k, close |-> base + (IF 2 * r <= p THEN r ELSE p - r)]]

ScenarioRuns ==
    {<<Flat(c, ScenarioBars), f, sl, ra>> :
         c \in {1, 100, 8388609, 10000001, 13421773},
         f \in {0, GeneScale \div 2, GeneScale},
         sl \in {0, GeneScale}, ra \in {0, GeneScale \div 2}}
    \cup {<<Trend(base, step, ScenarioBars), 0, 0, 0>> :
              base \in {100, 1000}, step \in {1, 3}}
    \cup {<<Wave(w[1], w[2], w[3], w[4]), 0, 0, 0>> :
              w \in {<<100, 120, 24, 400>>, <<200, 100, 20, 300>>,
                      <<100, 100, 16, 200>>}}
    \cup {<<ThreeLevel(1, 2, 5, 22, 36, NumBars), 0, 0, 0>>,
          <<Flat(1, ShortHistory), 0, 0, 0>>}

\* the lengths of the histories backtestAgent is called with
HistoryLengths ==
    {ShortHistory, MIN_BARS, BACKTEST_BARS - 1, BACKTEST_BARS, BACKTEST_BARS + 1,
     ScenarioBars}

ScenarioInit ==
    /\ GenIdle
    /\ sim = NoSim
    /\ \/ \E run \in ScenarioRuns :
             call = [fn |-> "runBacktest", done |-> FALSE, fastMA |-> run[2],
                     slowMA |-> run[3], riskAversion |-> run[4], bars |-> run[1],
                     ret |-> NullResult]
       \/ \E n \in HistoryLengths, f \in {0, GeneScale}, g \in {0, GeneScale} :
             call = [fn |-> "backtestAgent", done |-> FALSE,
                     agent |-> [id |-> 1,
                                genome |-> [fastMA |-> f, slowMA |-> 0,
                                            riskAversion |-> 0, assetIdx |-> g]],
                     priceHistory |-> (0 :> Wave(100, 120, 24, n)),
                     ret |-> NullResult]

\* runBacktest from its call to its return (lines 143-311); `sim` keeps the
\* locals the loop ended with
RunBacktest ==
    /\ call.fn = "runBacktest" /\ ~call.done /\ sim.phase = "idle"
    /\ IF Len(call.bars) < MIN_BARS
       THEN /\ call' = [call EXCEPT !.done = TRUE, !.ret = NullResult]
            /\ sim' = sim
       ELSE \E s \in {RunLoop(StartSim(call.bars, call.fastMA, call.slowMA,
                                       call.riskAversion))} :
               /\ sim' = [s EXCEPT !.phase = "done"]
               /\ call' = [call EXCEPT !.done = TRUE, !.ret = Finish(s)]
    /\ UNCHANGED genVars

\* backtestAgent from its call to its return (lines 339-360)
BacktestAgent ==
    /\ call.fn = "backtestAgent" /\ ~call.done
    /\ call' = [call EXCEPT !.done = TRUE,
                            !.ret = backtestAgent(call.agent, call.priceHistory)]
    /\ UNCHANGED <<genVars, sim>>

SpecScenario == ScenarioInit /\ [][RunBacktest \/ BacktestAgent]_vars

-----------------------------------------------------------------------------
(* Spec: the dashboard through loads and generation cycles *)

\* the largest population the spawn wizard offers
MaxCount == 100

MaxGen == 2
MaxPop == 10
PopSizes == {0, 1, 4, MaxPop}

\* the genes a spawned population is drawn from: trend followers on the
\* first and the last asset, and one on an asset without bars
GenomePool ==
    << [fastMA |-> 0, slowMA |-> 0, riskAversion |-> 0, assetIdx |-> 0],
       [fastMA |-> 0, slowMA |-> 0, riskAversion |-> GeneScale \div 2,
        assetIdx |-> GeneScale],
       [fastMA |-> GeneScale \div 10, slowMA |-> 0, riskAversion |-> GeneScale \div 5,
        assetIdx |-> 0],
       [fastMA |-> 0, slowMA |-> 0, riskAversion |-> 0, assetIdx |-> GeneScale \div 2] >>

\* OnboardingModal buildAgents: `count` agents of generation 0 with
\* placeholder metrics
buildAgents(count) ==
    Mapped([i \in 1..count |->
               LET genome == GenomePool[((i - 1) % Len(GenomePool)) + 1]
               IN  [ id |-> i, generation |-> 0, fitness |-> 500, status |-> "active",
                     archetype |-> archetypeFromGenome(genome.fastMA, genome.slowMA),
                     sharpe |-> 0, maxDrawdown |-> 0, winRate |-> 0, totalReturn |-> 0,
                     trades |-> 0, parentIds |-> <<>>, genome |-> genome ]], count)

\* what loadPriceData may deliver: bars with positive closes for some of
\* the symbols, one of them possibly with a short history
PriceWorlds ==
    { (0 :> ThreeLevel(10, 20, 30, 22, 36, NumBars))
        @@ (LastAsset :> ThreeLevel(5, 8, 4, 26, 40, NumBars)),
      (0 :> ThreeLevel(10, 20, 12, 22, 36, NumBars))
        @@ (LastAsset :> ThreeLevel(5, 5, 5, 1, 1, ShortHistory)),
      NoPrices }

Init ==
    /\ GenIdle
    /\ sim = NoSim
    /\ call = NoCall

\* part_001 lines 90-176, with the population the spawn wizard stored
Load ==
    /\ ~isRunning /\ agents = <<>> /\ currentGen = 0
    /\ \E priceData \in PriceWorlds, count \in PopSizes :
       \E dbAgents \in {buildAgents(count)} :
       \E res \in {Scored(dbAgents, priceData)} :
          /\ priceHistory' = priceData
          /\ agents' = Applied(dbAgents, res)
          /\ backtestResults' = IF count > 0 THEN ResultsOf(dbAgents, res)
                                ELSE backtestResults
    /\ UNCHANGED <<currentGen, genHistory, portfolio, toast, generationSummary,
                   isRunning, sim, call,
                   isPriceRefreshing, rendered, inflight>>

\* lines 234-237
RunGenerationNoPrices ==
    /\ ~isRunning
    /\ DOMAIN priceHistory = {}
    /\ toast' = [title |-> "no prices", generation |-> 0, culled |-> 0, born |-> 0]
    /\ UNCHANGED <<agents, currentGen, genHistory, portfolio, priceHistory,
                   backtestResults, generationSummary, isRunning, sim, call,
                   isPriceRefreshing, rendered, inflight>>

\* line 238
RunGenerationStart ==
    /\ ~isRunning
    /\ DOMAIN priceHistory # {}
    /\ currentGen < MaxGen
    /\ isRunning' = TRUE
    /\ UNCHANGED <<agents, currentGen, genHistory, portfolio, priceHistory,
                   backtestResults, toast, generationSummary, sim, call,
                   isPriceRefreshing, rendered, inflight>>

\* lines 393-398
Failed ==
    /\ toast' = [title |-> "failed", generation |-> 0, culled |-> 0, born |-> 0]
    /\ isRunning' = FALSE

\* lines 239-281 without a non-extinct agent: topBreed is empty, p1 is
\* undefined and p1.genome throws
RunGenerationThrow ==
    /\ isRunning
    /\ Active(agents) = <<>>
    /\ Failed
    /\ UNCHANGED <<agents, currentGen, genHistory, portfolio, priceHistory,
                   backtestResults, generationSummary, sim, call,
                   isPriceRefreshing, rendered, inflight>>

\* lines 239-399 with breeders; `stored` says whether the writes of step 8
\* went through, and `call` keeps the newResults the cycle collected
RunGenerationCycle ==
    /\ isRunning
    /\ Active(agents) # <<>>
    /\ \E sel \in {Selection(agents, priceHistory)} :
       \E seed \in Seeds :
       \E c \in {Cycle(sel, agents, priceHistory, backtestResults, currentGen, seed)} :
       \E stored \in BOOLEAN :
          /\ backtestResults' = Merge(backtestResults, c.newResults)
          /\ call' = [fn |-> "runGeneration", done |-> TRUE,
                      newResults |-> c.newResults]
          /\ IF stored
             THEN /\ portfolio' = c.report.portfolio
                  /\ generationSummary' = c.report.summary
                  /\ agents' = c.allNext
                  /\ currentGen' = currentGen + 1
                  /\ genHistory' = Append(genHistory, c.report.genData)
                  /\ toast' = c.report.toast
                  /\ isRunning' = FALSE
             ELSE /\ Failed
                  /\ UNCHANGED <<agents, currentGen, genHistory, portfolio,
                                 generationSummary>>
    /\ UNCHANGED <<priceHistory, sim, isPriceRefreshing, rendered, inflight>>

Next ==
    \/ Load
    \/ RunGenerationNoPrices
    \/ RunGenerationStart
    \/ RunGenerationThrow
    \/ RunGenerationCycle

Spec == Init /\ [][Next]_vars

-----------------------------------------------------------------------------
(* SpecAsync: the handlers of the dashboard with their awaits.  A handler  *)
(* runs with the state of the render it was created in; what it sets      *)
(* shows in the buttons and the closures at the next commit, and in the   *)
(* refs of the auto-run timer at the effect flush that follows it.  (Spec *)
(* takes every render as immediate and every cycle as one step.)          *)

\* the async calls the model lets wait at the same time
MaxInflight == 2

\* a loaded dashboard of four agents, rendered
AsyncInit ==
    /\ \E priceData \in PriceWorlds \ {NoPrices} :
       \E dbAgents \in {buildAgents(4)} :
       \E res \in {Scored(dbAgents, priceData)} :
          /\ priceHistory = priceData
          /\ agents = Applied(dbAgents, res)
          /\ backtestResults = ResultsOf(dbAgents, res)
    /\ currentGen = 0
    /\ genHistory = <<>>
    /\ portfolio = [capital |-> INITIAL_CAPITAL, pnl |-> 0, pnlPercent |-> 0,
                    generation |-> 0]
    /\ toast = NoToast
    /\ generationSummary = NoSummary
    /\ isRunning = FALSE
    /\ isPriceRefreshing = FALSE
    /\ inflight = <<>>
    /\ rendered = [dom |-> Shown, ref |-> Shown]
    /\ sim = NoSim
    /\ call = NoCall

\* lines 233-365: runGeneration up to its first await, called by a click on
\* Run Generation (GenerationControls.tsx 100-104: the button of the last
\* commit, disabled by its isRunning) or by a tick of the auto-run timer
\* (lines 408-410: the refs of the last effect flush)
RunGeneration ==
    /\ currentGen < MaxGen
    /\ Len(inflight) < MaxInflight
    /\ \E via \in {"dom", "ref"} :
       \E cl \in {rendered[via]} :
          /\ ~cl.isRunning
          /\ IF DOMAIN cl.priceHistory = {}
             THEN /\ toast' = [title |-> "no prices", generation |-> 0, culled |-> 0,
                               born |-> 0]
                  /\ UNCHANGED <<isRunning, backtestResults, inflight>>
             ELSE IF Active(cl.agents) = <<>>
             THEN /\ Failed
                  /\ UNCHANGED <<backtestResults, inflight>>
             ELSE \E sel \in {Selection(cl.agents, cl.priceHistory)} :
                  \* one stream of random values: the interleavings, not the
                  \* genes, are the subject here
                  \E seed \in {0} :
                  \E c \in {Cycle(sel, cl.agents, cl.priceHistory, cl.backtestResults,
                                  cl.currentGen, seed)} :
                     /\ isRunning' = TRUE
                     /\ backtestResults' = Merge(backtestResults, c.newResults)
                     /\ inflight' = Append(inflight, [op |-> "runGeneration",
                                                      agents |-> cl.agents, c |-> c])
                     /\ toast' = toast
    /\ UNCHANGED <<agents, currentGen, genHistory, portfolio, priceHistory,
                   generationSummary, isPriceRefreshing, rendered, sim, call>>

\* lines 365-398: the writes of a waiting cycle return (`stored`) or throw,
\* and the cycle sets its state
Persisted ==
    \E k \in 1..Len(inflight) :
       /\ inflight[k].op = "runGeneration"
       /\ rendered = [dom |-> Shown, ref |-> Shown]
       /\ inflight' = SubSeq(inflight, 1, k - 1) \o SubSeq(inflight, k + 1, Len(inflight))
       /\ \E stored \in BOOLEAN :
             IF stored
             THEN /\ portfolio' = inflight[k].c.report.portfolio
                  /\ generationSummary' = inflight[k].c.report.summary
                  /\ agents' = inflight[k].c.allNext
                  /\ currentGen' = currentGen + 1
                  /\ genHistory' = Append(genHistory, inflight[k].c.report.genData)
                  /\ toast' = inflight[k].c.report.toast
                  /\ isRunning' = FALSE
             ELSE /\ Failed
                  /\ UNCHANGED <<agents, currentGen, genHistory, portfolio,
                                 generationSummary>>
       /\ UNCHANGED <<priceHistory, backtestResults, isPriceRefreshing, rendered,
                      sim, call>>

\* lines 210-213: a click on a refresh button of the last commit (447-448,
\* 482-483) calls refreshPriceData, which waits for the download
RefreshPrices ==
    /\ ~rendered.dom.isPriceRefreshing
    /\ Len(inflight) < MaxInflight
    /\ isPriceRefreshing' = TRUE
    /\ inflight' = Append(inflight, [op |-> "refreshPriceData",
                                     agents |-> rendered.dom.agents, c |-> NoCall])
    /\ UNCHANGED <<agents, currentGen, genHistory, portfolio, priceHistory,
                   backtestResults, toast, generationSummary, isRunning, rendered,
                   sim, call>>

\* lines 213-229: the download returns (the bars there were, or nothing
\* when it failed) and the agents of the call's closure are backtested
\* again and set
Refreshed ==
    \E k \in 1..Len(inflight) :
       /\ inflight[k].op = "refreshPriceData"
       /\ rendered = [dom |-> Shown, ref |-> Shown]
       /\ inflight' = SubSeq(inflight, 1, k - 1) \o SubSeq(inflight, k + 1, Len(inflight))
       /\ \E freshData \in {priceHistory, NoPrices} :
          \E res \in {Scored(inflight[k].agents, freshData)} :
             /\ priceHistory' = freshData
             /\ backtestResults' = ResultsOf(inflight[k].agents, res)
             /\ agents' = Applied(inflight[k].agents, res)
       /\ isPriceRefreshing' = FALSE
       /\ toast' = [title |-> "refreshed", generation |-> 0, culled |-> 0, born |-> 0]
       /\ UNCHANGED <<currentGen, genHistory, portfolio, generationSummary, isRunning,
                      rendered, sim, call>>

\* React commits the state that was set (buttons and closures), and
\* afterwards runs the effects of lines 402-403, which copy isRunning and
\* runGeneration into the refs
Render ==
    /\ \/ /\ rendered.dom # Shown
          /\ rendered' = [rendered EXCEPT !.dom = Shown]
       \/ /\ rendered.ref # rendered.dom
          /\ rendered' = [rendered EXCEPT !.ref = rendered.dom]
    /\ UNCHANGED <<agents, currentGen, genHistory, portfolio, priceHistory,
                   backtestResults, toast, generationSummary, isRunning,
                   isPriceRefreshing, inflight, sim, call>>

SpecAsync ==
    AsyncInit /\ [][RunGeneration \/ Persisted \/ RefreshPrices \/ Refreshed \/ Render]_vars

-----------------------------------------------------------------------------
(* Properties *)

\* a step that ends a generation cycle (the finally of line 397)
CycleEnds == isRunning /\ ~isRunning'

\* a step that ends a generation cycle with its state updates done
CycleCompletes == CycleEnds /\ toast'.title = "complete"

\* C1: every successful generation cycle over n >= 1 non-extinct agents
\* culls exactly max(1, floor(0.20 * n)) agents and produces as many
\* offspring, so that n agents are non-extinct after it; cycle after cycle.
C1_CullAndBreed ==
    [][CycleCompletes =>
          LET n == Len(Active(agents))
              fifth == (20 * n) \div 100
              expected == IF fifth >= 1 THEN fifth ELSE 1
          IN  /\ n >= 1
              /\ toast'.culled = expected
              /\ toast'.born = expected
              /\ Len(agents') = Len(agents) + expected
              /\ Cardinality({k \in 1..Len(agents) :
                                 /\ agents[k].status # "extinct"
                                 /\ agents'[k].status = "extinct"}) = expected
              /\ \A k \in (Len(agents) + 1)..Len(agents') :
                    agents'[k].status = "newborn"
              /\ Len(Active(agents')) = n]_vars

\* a second cycle in a row over ten agents has culled two and bred two
C1_Witness ==
    /\ toast.title = "complete" /\ toast.culled = 2 /\ toast.born = 2
    /\ currentGen >= 2
    /\ Len(Active(agents)) = 10
    /\ Len(agents) = 14

\* the asset of the agent has no bars, or fewer than fifty
NoUsableBars(a, ph) ==
    \/ decodeAssetIdx(a.genome.assetIdx) \notin DOMAIN ph
    \/ Len(ph[decodeAssetIdx(a.genome.assetIdx)]) < 50

SameMetrics(a, b) ==
    /\ a.fitness = b.fitness /\ a.sharpe = b.sharpe
    /\ a.maxDrawdown = b.maxDrawdown /\ a.winRate = b.winRate
    /\ a.totalReturn = b.totalReturn /\ a.trades = b.trades

\* C2: an agent whose asset has no price history, or fewer than 50 bars,
\* gets no backtest result, and a generation cycle that completes leaves
\* its fitness, sharpe, maxDrawdown, winRate, totalReturn and trades as
\* they were.
C2_NoDataKeepsMetrics ==
    [][CycleCompletes =>
          \A k \in 1..Len(agents) :
             (agents[k].status # "extinct" /\ NoUsableBars(agents[k], priceHistory))
                => /\ backtestAgent(agents[k], priceHistory).isNull
                   /\ agents'[k].id = agents[k].id
                   /\ SameMetrics(agents'[k], agents[k])]_vars

\* a cycle has completed over a population in which one agent trades an
\* asset with 49 bars and another has a backtest result
C2_Witness ==
    /\ toast.title = "complete"
    /\ \E k \in 1..Len(agents) :
          /\ agents[k].generation = 0
          /\ decodeAssetIdx(agents[k].genome.assetIdx) \in DOMAIN priceHistory
          /\ NoUsableBars(agents[k], priceHistory)
          /\ agents[k].fitness = 500 /\ agents[k].trades = 0
    /\ \E j \in 1..Len(agents) : agents[j].id \in DOMAIN backtestResults

FitnessCalled == call.fn = "computeFitness" /\ call.done

\* C3: computeFitness returns a value in [0, 100] for every finite input,
\* inputs outside their nominal ranges included.
C3_FitnessRange == FitnessCalled => (call.ret >= 0 /\ call.ret <= 100 * 10)

\* a win rate above 100 has driven the weighted sum above 1
C3_Witness ==
    /\ FitnessCalled
    /\ call.winRatePct > 100 * MetricScale
    /\ call.raw > 6000 * MetricScale
    /\ call.ret = 100 * 10

InLoop == sim.phase \in {"loop", "done"}

\* C4 (as claimed): at every bar of a backtest over non-negative prices,
\* cash >= 0 and held units >= 0, the position's value is at most the
\* equity and the equity is not negative.
C4_NoLeverage ==
    (InLoop /\ sim.i > 0) =>
        /\ ~sim.nan
        /\ sim.cash >= 0 /\ sim.position >= 0
        /\ sim.position * sim.price <= sim.cash + sim.position * sim.price
        /\ sim.cash + sim.position * sim.price >= 0

\* C5 (as claimed): at every bar the value of the position is at most
\* 0.99 * (1 - riskAversion) of the equity at that bar (here with a
\* tolerance of a tenth of a percent of the equity), on bars without a
\* rebalance too.
C5_ConcentrationCeiling ==
    (InLoop /\ sim.i > 0 /\ ~sim.nan) =>
        sim.position * sim.price
           <= MulDiv(sim.cash + sim.position * sim.price,
                     99 * (GeneScale - sim.riskAversion), 100 * GeneScale)
              + ((sim.cash + sim.position * sim.price) \div 1000)

\* C6 (amended): at every bar the target exposure lies in the closed
\* interval [0, 0.99], and it is 0 whenever the fast SMA is not strictly
\* above the slow SMA.
C6_ExposureClosedRange ==
    (InLoop /\ sim.i > 0) =>
        /\ sim.targetExposure >= 0
        /\ 100 * sim.targetExposure <= 99 * ExpScale
        /\ (~sim.bullish => sim.targetExposure = 0)

\* the fast SMA is above the slow SMA and the target exposure is 0.99
C6_Witness ==
    /\ InLoop /\ sim.i > 0
    /\ sim.bullish
    /\ sim.riskAversion = 0
    /\ 100 * sim.targetExposure = 99 * ExpScale

\* C6 (as claimed): at every bar the target exposure lies in [0, 0.99),
\* and it is 0 whenever the fast SMA is not strictly above the slow SMA.
C6_ExposureHalfOpenRange ==
    (InLoop /\ sim.i > 0) =>
        /\ sim.targetExposure >= 0
        /\ 100 * sim.targetExposure < 99 * ExpScale
        /\ (~sim.bullish => sim.targetExposure = 0)

Decoded == call.fn = "decode" /\ call.done

\* C7: for every pair of period genes the periods the simulator uses
\* satisfy fastPeriod < slowPeriod: a decoded fast period >= the decoded
\* slow period sets slowPeriod to fastPeriod + max(10, ceil(0.25 *
\* fastPeriod)); otherwise both decoded periods are used as they are.
C7_SimulatorPeriods ==
    Decoded =>
        /\ call.fastPeriod < call.slowPeriod
        /\ call.fastPeriod = call.fast
        /\ IF call.fast >= call.slow
           THEN \E gap \in 10..call.fast :
                   /\ 4 * gap >= call.fast
                   /\ (gap = 10 \/ 4 * (gap - 1) < call.fast)
                   /\ call.slowPeriod = call.fast + gap
           ELSE call.slowPeriod = call.slow

\* the longest fast period against the shortest slow period: 50 and 20,
\* corrected to 50 and 63
C7_Witness ==
    /\ Decoded
    /\ call.fast = 50 /\ call.slow = 20
    /\ call.fastPeriod = 50 /\ call.slowPeriod = 63

\* C8 (amended): the codec decodes the two periods independently, the
\* fast one into 5..50 and the slow one into 20..200, so that the spread
\* slow - fast that the archetype classification uses lies in -30..195;
\* fast < slow is certain only for a decoded slow period above 50.
C8_CodecRanges ==
    Decoded =>
        /\ call.fast \in 5..50
        /\ call.slow \in 20..200
        /\ call.spread = call.slow - call.fast
        /\ call.spread \in (0 - 30)..195
        /\ (call.slow > 50 => call.fast < call.slow)

\* a genome whose decoded fast period is not below its decoded slow
\* period, classified on a spread that is not positive
C8_Witness ==
    /\ Decoded
    /\ call.fast >= call.slow
    /\ call.spread <= 0
    /\ call.archetype = "volatility"

\* C8 (as claimed): for every genome the decoded fast period is below the
\* decoded slow period, and the spread the classification uses is positive.
C8_CodecOrdersPeriods ==
    Decoded => (call.fast < call.slow /\ call.spread > 0)

\* C9: an agent that is extinct stays in the population, in its place,
\* with status extinct, through every step.
C9_ExtinctTerminal ==
    [][\A k \in 1..Len(agents) :
          agents[k].status = "extinct"
             => /\ k <= Len(agents')
                /\ agents'[k].id = agents[k].id
                /\ agents'[k].status = "extinct"]_vars

\* after a later cycle, an agent culled by an earlier cycle is still there
C9_Witness ==
    /\ currentGen >= 2
    /\ toast.title = "complete"
    /\ \E k \in 1..Len(agents) :
          /\ agents[k].status = "extinct"
          /\ \A j \in 1..Len(generationSummary.culled) :
                generationSummary.culled[j].id # agents[k].id

\* C10 (as claimed): a generation cycle over zero non-extinct agents leaves
\* the population, the generation counter, the history and the portfolio
\* as they were and reports zero culled and zero born, without failing.
C10_EmptyCycleNoOp ==
    [][(CycleEnds /\ Active(agents) = <<>>) =>
          /\ UNCHANGED <<agents, currentGen, genHistory, portfolio>>
          /\ toast'.title = "complete"
          /\ toast'.culled = 0 /\ toast'.born = 0]_vars

NicheCalled == call.fn = "nicheSelectFitness" /\ call.done

\* the agents of the call that have a result
NicheScored == {k \in 1..Len(call.res) : ~call.res[k].isNull}

\* the number of scored agents that trade the asset of agent k
NicheCount(k) == Cardinality({j \in NicheScored : call.res[j].asset = call.res[k].asset})

\* C11: the niche penalty of an agent is 0 when its asset's share c / n of
\* the scored agents is at most 0.40, is (share - 0.40) / 0.60 * 0.25 above
\* that, does not decrease when the share grows and is at most 0.25; the
\* selection fitness is the stored fitness times (1 - penalty).  (Penalties
\* are compared as multiples of 1 / (12 * n).)
C11_NichePenalty ==
    NicheCalled =>
        \A k \in NicheScored :
            LET n == Cardinality(NicheScored)
                c == NicheCount(k)
                fitness == call.backtested[k].fitness
                taken == 12 * n * fitness - call.keys[k]
            IN  /\ (5 * c <= 2 * n => taken = 0)
                /\ (5 * c > 2 * n => taken = fitness * (5 * c - 2 * n))
                /\ taken <= fitness * 3 * n
                /\ \A j \in NicheScored :
                      NicheCount(j) >= c
                         => (12 * n * call.backtested[j].fitness - call.keys[j])
                                * fitness >= taken * call.backtested[j].fitness

\* three of five scored agents trade one asset (share 0.6, penalty 1/12)
\* and two the other (share 0.4, no penalty)
C11_Witness ==
    /\ NicheCalled
    /\ Cardinality(NicheScored) = 5
    /\ \E k \in NicheScored, j \in NicheScored :
          /\ NicheCount(k) = 3 /\ NicheCount(j) = 2
          /\ 12 * call.keys[k] = 11 * (60 * call.backtested[k].fitness)
          /\ call.keys[j] = 60 * call.backtested[j].fitness

\* the fitness of the backtest result that `results` holds for agent `a`,
\* or `prior` when it holds none
ResultFitness(a, results, prior) ==
    IF a.id \in DOMAIN results THEN results[a.id].fitness ELSE prior

\* C12: after a generation cycle every agent's stored fitness, and the
\* fitness reported for every culled agent, is the fitness of its backtest
\* result, or the fitness it had (for an offspring: was created with) when
\* it has no result; never the penalised selection fitness.
C12_PenaltyOnlyOrders ==
    [][CycleCompletes =>
          /\ \A k \in 1..Len(agents') :
                agents'[k].fitness
                   = ResultFitness(agents'[k], call'.newResults,
                                   IF k <= Len(agents) THEN agents[k].fitness ELSE 500)
          /\ \A j \in 1..Len(generationSummary'.culled) :
                \E k \in 1..Len(agents) :
                   /\ agents[k].id = generationSummary'.culled[j].id
                   /\ generationSummary'.culled[j].fitness
                         = ResultFitness(agents[k], call'.newResults, agents[k].fitness)]_vars

\* the first cycle has ranked a population in which one asset holds more
\* than 0.40 of the scored agents, and an agent of that asset was culled
\* with its backtest fitness reported
C12_Witness ==
    /\ toast.title = "complete" /\ currentGen = 1
    /\ call.fn = "runGeneration"
    /\ LET first == {k \in 1..Len(agents) : agents[k].generation = 0
                                             /\ agents[k].id \in DOMAIN call.newResults}
           crowd(k) == {j \in first : call.newResults[agents[j].id].asset
                                         = call.newResults[agents[k].id].asset}
       IN  \E k \in first :
              /\ 5 * Cardinality(crowd(k)) > 2 * Cardinality(first)
              /\ agents[k].status = "extinct"
              /\ agents[k].fitness > 0
              /\ agents[k].fitness = call.newResults[agents[k].id].fitness
              /\ \E j \in 1..Len(generationSummary.culled) :
                    /\ generationSummary.culled[j].id = agents[k].id
                    /\ generationSummary.culled[j].fitness = agents[k].fitness

\* C13: for parents with genes in [0, 1] and a random source with values
\* in [0, 1), every gene of the crossoverMutate output lies in [0, 1].
C13_OffspringGenesInRange ==
    /\ (call.fn = "crossoverMutate" /\ call.done) =>
          /\ call.ret.fastMA \in 0..GeneScale
          /\ call.ret.slowMA \in 0..GeneScale
          /\ call.ret.riskAversion \in 0..GeneScale
          /\ call.ret.assetIdx \in 0..GeneScale
    /\ (call.fn = "blend" /\ call.done) => call.ret \in 0..GeneScale

\* a gene both parents have at 1, mutated upward, was brought back to 1
C13_Witness ==
    /\ call.fn = "crossoverMutate" /\ call.done
    /\ call.p1.fastMA = GeneScale /\ call.p2.fastMA = GeneScale
    /\ 2 * Draw(call.seed, call.k + 4) > RandMod + 2
    /\ call.ret.fastMA = GeneScale

\* C14 (as claimed): the capital reported after a generation cycle is
\* round(100000 * (1 + clamp(weightedReturn, -0.50, 2.00))), with the
\* weights max(fitness, 0.01) / sum over the non-extinct agents of the
\* assembled generation and each agent's return that of its own backtest in
\* this cycle (its stored total return when it has none); it lies in
\* [50000, 300000] and depends on nothing but the assembled population.
C14_CapitalSnapshot ==
    [][CycleCompletes =>
          LET own == Snapshot(Active(agents'), call'.newResults, currentGen)
          IN  /\ portfolio'.capital = own.capital
              /\ generationSummary'.capitalAfter = own.capital
              /\ portfolio'.capital >= INITIAL_CAPITAL \div 2
              /\ portfolio'.capital <= 3 * INITIAL_CAPITAL]_vars

\* C15 (as claimed): every offspring of the assembled next generation
\* carries the fitness and the metrics of a backtest of its own genome;
\* none is left with the placeholder fitness and the zeroed metrics it was
\* created with.
C15_OffspringBacktested ==
    [][CycleCompletes =>
          \A k \in (Len(agents) + 1)..Len(agents') :
             /\ agents'[k].id \in DOMAIN call'.newResults
             /\ ~backtestAgent(agents'[k], priceHistory).isNull
             /\ agents'[k] = ApplyResult(agents'[k], backtestAgent(agents'[k], priceHistory))]_vars

\* the series of a runBacktest call is flat: one positive close throughout
FlatCall ==
    /\ call.fn = "runBacktest"
    /\ call.bars[1].close > 0
    /\ \A k \in 1..Len(call.bars) : call.bars[k].close = call.bars[1].close

\* C16 (as claimed): over 800 bars of one positive close, whatever the
\* genome, no entry or exit signal is ever recorded, cash and position never
\* change, and the result has tradeCount = 0, totalReturn = 0 and
\* winRate = 0.
C16_FlatNoSignals ==
    (FlatCall /\ Len(call.bars) = ScenarioBars) =>
        /\ sim.phase # "idle" =>
              /\ sim.tradeSignals = <<>>
              /\ sim.position = 0
              /\ sim.cash = INITIAL_CAPITAL * MoneyScale
        /\ call.done =>
              /\ call.ret.tradeSignals = <<>>
              /\ call.ret.trades = 0
              /\ call.ret.totalReturn = 0
              /\ call.ret.winRate = 0

\* the series of a runBacktest call rises strictly over its first half and
\* falls strictly from there on, and the genome is 0 / 0 / 0
TrendCall ==
    /\ call.fn = "runBacktest"
    /\ call.fastMA = 0 /\ call.slowMA = 0 /\ call.riskAversion = 0
    /\ Len(call.bars) = ScenarioBars
    /\ \A k \in 1..(Len(call.bars) - 1) :
          IF k < Len(call.bars) \div 2
          THEN call.bars[k].close < call.bars[k + 1].close
          ELSE call.bars[k].close > call.bars[k + 1].close

\* C17 (as claimed): for a series that rises strictly for 400 bars and then
\* falls strictly for 400 bars, with fastMA = 0, slowMA = 0 and
\* riskAversion = 0, the recorded trade signals are exactly one entry
\* followed by exactly one exit, the exit after the trend reversal.
C17_OneEntryOneExit ==
    (TrendCall /\ call.done) =>
        /\ Len(call.ret.tradeSignals) = 2
        /\ call.ret.tradeSignals[1].action = "entry"
        /\ call.ret.tradeSignals[2].action = "exit"
        /\ call.ret.tradeSignals[2].date > ScenarioBars \div 2

\* C18: a backtest that completes without a completed round trip (wins +
\* losses = 0) reports winRate 0, not 50; any other reports
\* 100 * wins / (wins + losses), to the one decimal the result carries; the
\* reported trade count is wins + losses.
C18_WinRate ==
    (call.fn = "runBacktest" /\ call.done /\ ~call.ret.isNull) =>
        LET total == sim.wins + sim.losses
        IN  /\ call.ret.trades = total
            /\ IF total = 0 THEN call.ret.winRate = 0
               ELSE 2 * Abs(call.ret.winRate * total - 1000 * sim.wins) <= total

\* a backtest that opened a position and never closed one reports winRate 0
C18_Witness ==
    /\ call.fn = "runBacktest" /\ call.done /\ ~call.ret.isNull
    /\ sim.phase = "done"
    /\ sim.wins + sim.losses = 0
    /\ sim.position > 0
    /\ call.ret.winRate = 0

\* the history of the asset of a backtestAgent call
CalledHistory == call.priceHistory[decodeAssetIdx(call.agent.genome.assetIdx)]

\* C19: the backtest of an agent replays the most recent 730 bars of its
\* asset when more are supplied, and all k bars when 50 <= k <= 730: the
\* equity curve has one point per replayed bar, in bar order, the first one
\* for the 730th bar from the end when the history is longer than that.
C19_RecentBarsReplayed ==
    (/\ call.fn = "backtestAgent" /\ call.done
     /\ decodeAssetIdx(call.agent.genome.assetIdx) \in DOMAIN call.priceHistory
     /\ Len(CalledHistory) >= MIN_BARS) =>
        LET k == Len(CalledHistory)
            curve == call.ret.equityCurve
        IN  /\ ~call.ret.isNull
            /\ Len(curve) = IF k > BACKTEST_BARS THEN BACKTEST_BARS ELSE k
            /\ \A j \in 1..Len(curve) :
                  curve[j].date = CalledHistory[k - Len(curve) + j].date

\* a history of more than 730 bars, replayed from its 730th bar from the end
C19_Witness ==
    /\ call.fn = "backtestAgent" /\ call.done /\ ~call.ret.isNull
    /\ Len(CalledHistory) > BACKTEST_BARS
    /\ Len(call.ret.equityCurve) = BACKTEST_BARS
    /\ call.ret.equityCurve[1].date = CalledHistory[Len(CalledHistory) - BACKTEST_BARS + 1].date
    /\ call.ret.equityCurve[1].date > 1

\* C20: for every gene value v in [0, 1], decodeFastMA(v) is 5 + 45 v
\* rounded to the nearest integer (halves upward) and lies in 5..50, with 5
\* at v = 0 and 50 at v = 1; decodeSlowMA(v) is 20 + 180 v rounded alike
\* and lies in 20..200, with 20 at v = 0 and 200 at v = 1; neither
\* decreases when v grows.
C20_PeriodDecoders ==
    Decoded =>
        /\ 2 * GeneScale * call.fast <= 2 * (5 * GeneScale + 45 * call.fastMA) + GeneScale
        /\ 2 * GeneScale * call.fast > 2 * (5 * GeneScale + 45 * call.fastMA) - GeneScale
        /\ 2 * GeneScale * call.slow <= 2 * (20 * GeneScale + 180 * call.slowMA) + GeneScale
        /\ 2 * GeneScale * call.slow > 2 * (20 * GeneScale + 180 * call.slowMA) - GeneScale
        /\ call.fast >= 5 /\ call.fast <= 50
        /\ call.slow >= 20 /\ call.slow <= 200
        /\ (call.fastMA = 0 => call.fast = 5)
        /\ (call.fastMA = GeneScale => call.fast = 50)
        /\ (call.slowMA = 0 => call.slow = 20)
        /\ (call.slowMA = GeneScale => call.slow = 200)
        /\ \A v \in Genes :
              /\ (v <= call.fastMA => decodeFastMA(v) <= call.fast)
              /\ (v <= call.slowMA => decodeSlowMA(v) <= call.slow)

\* both genes at 1: the longest periods, 50 and 200
C20_Witness ==
    /\ Decoded
    /\ call.fastMA = GeneScale /\ call.slowMA = GeneScale
    /\ call.fast = 50 /\ call.slow = 200


\* C21: in a generation cycle the agents that become extinct are exactly
\* the cullCount agents that come last in the stable descending order of
\* selection fitness (the fitness of this cycle's backtest, or the stored
\* one without a result, times 1 - niche penalty; compared as multiples of
\* 1 / (12 * n)): every culled agent has a lower selection fitness than
\* every survivor, or the same and a later place in the population; no
\* other agent's status becomes extinct.
C21_CullsLowestRanked ==
    [][CycleCompletes =>
          LET before == {k \in 1..Len(agents) : agents[k].status # "extinct"}
              results == call'.newResults
              scored == {k \in before : agents[k].id \in DOMAIN results}
              n == IF scored = {} THEN 1 ELSE Cardinality(scored)
              share(k) == Cardinality({j \in scored : results[agents[j].id].asset
                                                         = results[agents[k].id].asset})
              key(k) == IF k \in scored
                        THEN results[agents[k].id].fitness
                                * (12 * n - NichePenalty(share(k), n))
                        ELSE agents[k].fitness * 12 * n
              culled == {k \in before : agents'[k].status = "extinct"}
          IN  /\ Cardinality(culled) = CullCount(Cardinality(before))
              /\ \A c \in culled, s \in before \ culled :
                    key(c) < key(s) \/ (key(c) = key(s) /\ c > s)
              /\ \A k \in (1..Len(agents')) \ before :
                    agents'[k].status = "extinct"
                       <=> (k <= Len(agents) /\ agents[k].status = "extinct")]_vars

\* a cycle over ten agents has culled two of them; one has a backtest
\* fitness below that of a survivor and equal to that of another survivor,
\* which comes earlier in the population
C21_Witness ==
    /\ toast.title = "complete" /\ toast.culled = 2
    /\ call.fn = "runGeneration"
    /\ \E c \in 1..Len(agents), s \in 1..Len(agents), t \in 1..Len(agents) :
          /\ agents[c].status = "extinct"
          /\ agents[s].status = "active" /\ agents[t].status = "active"
          /\ \E j \in 1..Len(generationSummary.culled) :
                generationSummary.culled[j].id = agents[c].id
          /\ {agents[c].id, agents[s].id, agents[t].id} \subseteq DOMAIN call.newResults
          /\ call.newResults[agents[c].id].fitness < call.newResults[agents[s].id].fitness
          /\ call.newResults[agents[c].id].fitness = call.newResults[agents[t].id].fitness
          /\ t < c

\* C22: every offspring's parentIds are the ids of two agents (possibly
\* the same one twice) of the breeding pool, the first max(2, floor(0.30 *
\* n)) agents of the stable descending order of selection fitness over the
\* n non-extinct agents; no parent is outside that pool or was extinct
\* before the cycle.
C22_ParentsFromPool ==
    [][CycleCompletes =>
          LET before == {k \in 1..Len(agents) : agents[k].status # "extinct"}
              results == call'.newResults
              scored == {k \in before : agents[k].id \in DOMAIN results}
              n == IF scored = {} THEN 1 ELSE Cardinality(scored)
              share(k) == Cardinality({j \in scored : results[agents[j].id].asset
                                                         = results[agents[k].id].asset})
              key(k) == IF k \in scored
                        THEN results[agents[k].id].fitness
                                * (12 * n - NichePenalty(share(k), n))
                        ELSE agents[k].fitness * 12 * n
              place(k) == Cardinality({j \in before :
                                          key(j) > key(k) \/ (key(j) = key(k) /\ j < k)}) + 1
              third == (30 * Cardinality(before)) \div 100
              pool == {k \in before : place(k) <= (IF third >= 2 THEN third ELSE 2)}
          IN  \A o \in (Len(agents) + 1)..Len(agents') :
                 /\ Len(agents'[o].parentIds) = 2
                 /\ \A i \in 1..2 :
                       \E k \in pool : agents[k].id = agents'[o].parentIds[i]
                 /\ \A i \in 1..2, k \in 1..Len(agents) :
                       agents[k].id = agents'[o].parentIds[i] => k \in pool]_vars

\* a cycle over ten agents (a pool of three) has bred an offspring from two
\* different agents and one from the same agent twice
C22_Witness ==
    /\ toast.title = "complete" /\ toast.born = 2
    /\ \E o \in 1..Len(agents), t \in 1..Len(agents) :
          /\ agents[o].status = "newborn" /\ agents[t].status = "newborn"
          /\ agents[o].parentIds[1] # agents[o].parentIds[2]
          /\ agents[t].parentIds[1] = agents[t].parentIds[2]

\* C23: after every successful generation cycle run at generation g, the
\* agents with status newborn are exactly the offspring created in that
\* cycle, each with generation g + 1, and every agent that was newborn
\* before the cycle and was not culled is active afterwards.
C23_NewbornAreOffspring ==
    [][CycleCompletes =>
          /\ Len(agents') > Len(agents)
          /\ {k \in 1..Len(agents') : agents'[k].status = "newborn"}
                = (Len(agents) + 1)..Len(agents')
          /\ \A k \in (Len(agents) + 1)..Len(agents') :
                agents'[k].generation = currentGen + 1
          /\ \A k \in 1..Len(agents) :
                (agents[k].status = "newborn" /\ agents'[k].status # "extinct")
                   => agents'[k].status = "active"]_vars

\* the second cycle has left an offspring of the first one active, and its
\* own offspring newborn
C23_Witness ==
    /\ toast.title = "complete" /\ currentGen = 2
    /\ \E k \in 1..Len(agents), o \in 1..Len(agents) :
          /\ agents[k].generation = 1 /\ agents[k].status = "active"
          /\ agents[o].generation = 2 /\ agents[o].status = "newborn"

\* C26 (as claimed): in every generation cycle over n >= 1 non-extinct
\* agents no offspring lists as a parent an agent that the same cycle
\* culled.
C26_CulledNotParents ==
    [][CycleCompletes =>
          \A o \in (Len(agents) + 1)..Len(agents'), i \in 1..2, k \in 1..Len(agents) :
             (agents[k].status # "extinct" /\ agents'[k].status = "extinct")
                => agents'[o].parentIds[i] # agents[k].id]_vars

\* C26 (amended): in every generation cycle over n >= 3 non-extinct agents
\* the culled agents and the breeding pool are disjoint (their sizes add up
\* to at most n, for every n up to the largest population), so no
\* offspring lists as a parent an agent culled in the same cycle.
C26_CulledNotParentsFromThree ==
    [][(CycleCompletes /\ Len(Active(agents)) >= 3) =>
          /\ \A n \in 3..MaxCount : CullCount(n) + BreedCount(n) <= n
          /\ \A o \in (Len(agents) + 1)..Len(agents'), i \in 1..2, k \in 1..Len(agents) :
                (agents[k].status # "extinct" /\ agents'[k].status = "extinct")
                   => agents'[o].parentIds[i] # agents[k].id]_vars

\* a cycle over four agents has culled one and bred its offspring from the
\* two that lead the order, both still active
C26_Witness ==
    /\ toast.title = "complete" /\ toast.culled = 1
    /\ Len(Active(agents)) = 4
    /\ \E o \in 1..Len(agents), p \in 1..Len(agents), q \in 1..Len(agents) :
          /\ agents[o].status = "newborn"
          /\ agents[o].parentIds = <<agents[p].id, agents[q].id>>
          /\ p # q
          /\ agents[p].status = "active" /\ agents[q].status = "active"
    /\ \E k \in 1..Len(agents) :
          /\ agents[k].status = "extinct"
          /\ agents[k].id = generationSummary.culled[1].id

\* C27: the ids of the population (active, newborn, breeding and extinct
\* agents alike) are pairwise different after any sequence of generation
\* cycles on a population loaded with unique ids: every offspring's id
\* differs from every existing agent's and from its siblings'.  (An id is
\* the number that follows "AGT-".)
C27_UniqueIds ==
    \A j \in 1..Len(agents), k \in 1..Len(agents) :
       j # k => agents[j].id # agents[k].id

\* two cycles over ten agents: fourteen agents, four of them extinct, two
\* newborn siblings
C27_Witness ==
    /\ currentGen = 2 /\ toast.title = "complete"
    /\ Len(agents) = 14
    /\ Cardinality({k \in 1..Len(agents) : agents[k].status = "extinct"}) = 4
    /\ Cardinality({k \in 1..Len(agents) : agents[k].status = "newborn"}) = 2

\* C30: a generation cycle, completed or failed, never changes the genome,
\* the id, the generation number or the parentIds of an agent that existed
\* before it; whatever genome is new stands behind the previous population,
\* on an offspring of the cycle.
C30_IdentityFrame ==
    [][CycleEnds =>
          /\ Len(agents') >= Len(agents)
          /\ \A k \in 1..Len(agents) :
                /\ agents'[k].id = agents[k].id
                /\ agents'[k].genome = agents[k].genome
                /\ agents'[k].generation = agents[k].generation
                /\ agents'[k].parentIds = agents[k].parentIds
          /\ \A k \in (Len(agents) + 1)..Len(agents') :
                /\ agents'[k].status = "newborn"
                /\ agents'[k].generation = currentGen + 1]_vars

\* the second cycle has re-scored an offspring of the first one, which
\* still has its generation and its two parents
C30_Witness ==
    /\ currentGen = 2 /\ toast.title = "complete"
    /\ \E k \in 1..Len(agents) :
          /\ agents[k].generation = 1
          /\ Len(agents[k].parentIds) = 2
          /\ agents[k].id \in DOMAIN call.newResults
          /\ agents[k].fitness = call.newResults[agents[k].id].fitness
          /\ agents[k].fitness # 500

\* C28 (as claimed): a round trip is counted exactly on a bar where a sell
\* leaves a residual position worth less than 0.5 % of the bar's equity;
\* on that bar the position becomes 0 and wins + losses grows by one, and
\* it is a win iff the exit equity is strictly above the equity recorded
\* when the position was opened from flat: that record is taken on the bar
\* where the position leaves 0 and is kept for as long as a position is
\* held.  wins + losses changes on no other bar.
C28_RoundTrips ==
    [][(sim.phase = "loop" /\ sim'.phase = "loop" /\ sim'.i = sim.i + 1 /\ ~sim'.nan) =>
          LET residual == IF sim'.price = 0 THEN 0
                          ELSE MulDiv(sim'.equity, sim'.targetExposure, ExpScale)
                                  \div sim'.price
              fullExit == /\ sim'.rebalanced /\ sim'.price > 0
                          /\ residual < sim.position
                          /\ residual * sim'.price < CeilDiv(sim'.equity, 200)
              counted == (sim'.wins + sim'.losses) - (sim.wins + sim.losses)
          IN  /\ counted = (IF fullExit THEN 1 ELSE 0)
              /\ sim'.wins >= sim.wins /\ sim'.losses >= sim.losses
              /\ fullExit => /\ sim'.position = 0
                             /\ sim'.wins = sim.wins + 1 <=> sim'.cash > sim.entryEquity
              /\ (sim.position = 0 /\ sim'.position > 0) => sim'.entryEquity = sim'.equity
              /\ sim.position > 0 => sim'.entryEquity = sim.entryEquity]_vars

\* C29 (as claimed): over bars with non-negative closes no division by zero
\* reaches the result: on a bar whose slow SMA is zero the target exposure
\* is zero, a bar that follows one with zero equity gets a finite daily
\* return, daily returns without variance give a Sharpe ratio of 0, and the
\* fitness (with the total return it is computed from) is a number.
C29_NoDivisionByZero ==
    /\ (InLoop /\ sim.i >= 1 /\ sim.slowSMA[sim.i] # NoSMA /\ sim.slowSMA[sim.i].m = 0)
          => sim.targetExposure = 0
    /\ InLoop =>
          \A k \in 1..Len(sim.dailyReturns) :
             (~sim.equityCurve[k].nan /\ sim.equityCurve[k].equity = 0)
                => sim.dailyReturns[k].finite
    /\ (call.fn = "runBacktest" /\ call.done /\ ~call.ret.isNull) =>
          /\ (\A k \in 1..Len(sim.dailyReturns) :
                 sim.dailyReturns[k] = sim.dailyReturns[1]) => call.ret.sharpe = 0
          /\ ~call.ret.nan

\* C24 (as claimed): however 'refresh prices' and 'run generation' are
\* interleaved, once every call has completed the population reflects the
\* last cycle's result: the agents it culled are extinct and its offspring
\* are present; no refresh that started before the cycle finished puts an
\* earlier population in its place.
C24_RefreshKeepsCycle ==
    (inflight = <<>> /\ generationSummary # NoSummary) =>
        /\ \A j \in 1..Len(generationSummary.culled) :
              \E k \in 1..Len(agents) :
                 /\ agents[k].id = generationSummary.culled[j].id
                 /\ agents[k].status = "extinct"
        /\ \A j \in 1..Len(generationSummary.born) :
              \E k \in 1..Len(agents) : agents[k].id = generationSummary.born[j].id

\* C25 (as claimed): at most one generation cycle is in progress at any
\* time, whatever the order of clicks on Run Generation and ticks of the
\* auto-run timer: no cycle starts while another waits for its writes, and
\* the generation counter moves only by one, to the number of the
\* generation that was assembled.
C25_OneCycleAtATime ==
    [][/\ Cardinality({k \in 1..Len(inflight') :
                          inflight'[k].op = "runGeneration"}) <= 1
       /\ currentGen' # currentGen =>
             /\ currentGen' = currentGen + 1
             /\ toast'.title = "complete"
             /\ toast'.generation = currentGen']_vars

=============================================================================
